---------------------------- MODULE Spec2Model ----------------------------
(***************************************************************************)
(* ACFS: a cluster-based key/value store over a raw byte-addressed medium. *)
(*                                                                         *)
(* The model follows the complete core (acfs_init .. acfs_defragment), the *)
(* public header (acfs.h) and the simulated EEPROM driver.  The medium is  *)
(* an array of bytes; the superblock, the directory records and the        *)
(* cluster lists are serialised to it at the byte addresses the code       *)
(* computes, so overlapping writes and out-of-range addresses behave as    *)
(* they do in the program.  Record sizes are those of an LP64 host build   *)
(* (the build the bundled tests and example run on).                       *)
(*                                                                         *)
(* 32-bit quantities that do not fit a model integer (CRC values) are      *)
(* kept as 4-byte little-endian tuples.                                    *)
(***************************************************************************)
EXTENDS Integers, Sequences, FiniteSets, TLC

VARIABLES
    storage,    \* storage_device_t: the descriptor of the medium
    medium,     \* eeprom_buffer: the bytes of the medium
    acfs,       \* acfs_t: the instance (header, entries, bitmap, initialized)
    last,       \* the last API call: arguments, return value, outputs, medium calls
    prev,       \* the API call before the last one, in short
    steps,      \* number of format, write, read and delete calls still to make
    mounts      \* number of init and deinit calls still to make

vars == <<storage, medium, acfs, last, prev, steps, mounts>>

---------------------------------------------------------------------------
(* Program constants (acfs.h) *)

ACFS_MAX_DATA_ID_LEN == 32
ACFS_CLUSTER_SIZE_MIN == 64
ACFS_CLUSTER_SIZE_MAX == 4096
ACFS_MAX_CLUSTERS == 65535
ACFS_VERSION_MAJOR == 1
ACFS_VERSION_MINOR == 0
\* ACFS_MAGIC_NUMBER 0x41434653 as stored by a little-endian host
ACFS_MAGIC_NUMBER == <<83, 70, 67, 65>>
\* sizeof(acfs_header_t): packed, 4 + 6*2 + 4
SizeofHeader == 20
\* sizeof(acfs_data_entry_t) on LP64: 32 + 4 + 2 (+2) + 8 + 4 + 1 (+3)
SizeofEntry == 56
\* sizeof(uint16_t)
SizeofU16 == 2
\* sizeof(uint32_t)
SizeofU32 == 4
\* the value memset() gives a fresh EEPROM buffer
ErasedByte == 255
\* uint16_t arithmetic is modulo 2^16
U16Mod == 65536

---------------------------------------------------------------------------
(* Bounds of the model *)

\* size of the medium in bytes
StorageSize == 2048
\* number of format, write, read and delete calls in one behaviour
MaxSteps == 3
\* number of init and deinit calls in one behaviour
MaxMounts == 3
\* number of format, write, read and delete calls in one behaviour that
\* fills the directory before it mounts again
DeepSteps == 5

---------------------------------------------------------------------------
(* Bytes and little-endian words *)

Byte == 0..255

RECURSIVE Xor8(_, _, _)
Xor8(a, b, k) ==
    IF k = 0 THEN 0
    ELSE ((a + b) % 2) + 2 * Xor8(a \div 2, b \div 2, k - 1)

XorTab == [a \in Byte |-> [b \in Byte |-> Xor8(a, b, 8)]]

\* xor of two 32-bit words given as 4-byte little-endian tuples
Xor32(a, b) == <<XorTab[a[1]][b[1]], XorTab[a[2]][b[2]],
                 XorTab[a[3]][b[3]], XorTab[a[4]][b[4]]>>

\* logical shift right by one bit of a 4-byte little-endian word
Shr1(w) == <<(w[1] \div 2) + 128 * (w[2] % 2), (w[2] \div 2) + 128 * (w[3] % 2),
             (w[3] \div 2) + 128 * (w[4] % 2), w[4] \div 2>>

\* logical shift right by eight bits
Shr8(w) == <<w[2], w[3], w[4], 0>>

LE16(v) == <<v % 256, (v \div 256) % 256>>

LE32(v) == <<v % 256, (v \div 256) % 256, (v \div 65536) % 256,
             (v \div 16777216) % 256>>

FromLE16(b) == b[1] + 256 * b[2]

\* value of a 4-byte little-endian word (the model only decodes sizes < 2^31)
FromLE32(b) == b[1] + 256 * b[2] + 65536 * b[3] + 16777216 * (b[4] % 128)

Zeros(n) == SubSeq([i \in 1..n |-> 0], 1, n)

Min(a, b) == IF a < b THEN a ELSE b

Max(a, b) == IF a > b THEN a ELSE b

---------------------------------------------------------------------------
(* CRC-32 (reflected, polynomial 0xEDB88320, init and final xor 0xFFFFFFFF) *)

CrcPoly == <<32, 131, 184, 237>>

RECURSIVE CrcEntry(_, _)
CrcEntry(c, k) ==
    IF k = 0 THEN c
    ELSE CrcEntry(IF c[1] % 2 = 1 THEN Xor32(CrcPoly, Shr1(c)) ELSE Shr1(c),
                  k - 1)

CrcTable == [i \in Byte |-> CrcEntry(<<i, 0, 0, 0>>, 8)]

CrcStep(crc, b) == Xor32(CrcTable[XorTab[crc[1]][b]], Shr8(crc))

\* the register after the bytes s[lo..hi]; the range is halved and the left
\* half is computed before the right one starts, which keeps the evaluation
\* shallow
RECURSIVE CrcRange(_, _, _, _)
CrcRange(crc, s, lo, hi) ==
    IF lo > hi THEN crc
    ELSE IF lo = hi THEN CrcStep(crc, s[lo])
    ELSE LET mid == (lo + hi) \div 2
             left == CrcRange(crc, s, lo, mid)
         IN  IF left[1] \in Byte THEN CrcRange(left, s, mid + 1, hi) ELSE left

acfs_crc32(s, size) ==
    Xor32(CrcRange(<<255, 255, 255, 255>>, s, 1, size), <<255, 255, 255, 255>>)

---------------------------------------------------------------------------
(* The medium: the simulated EEPROM *)

\* acfs_create_eeprom_device: the buffer is filled with 0xFF.  The byte at
\* address a of the medium is element a + 1 of the sequence.
FreshMedium == [a \in 1..StorageSize |-> ErasedByte]

\* acfs_create_eeprom_device: the descriptor it fills in
EepromDevice == [start_addr |-> 0, size |-> StorageSize, need_erase |-> FALSE]

\* acfs_create_flash_device: the descriptor it fills in; the buffer is filled
\* with 0xFF as well, and ops.write is flash_write
FlashDevice == [start_addr |-> 0, size |-> StorageSize, need_erase |-> TRUE]

\* flash_write: every byte of the range is still erased
Erased(mem, addr, size) ==
    \A i \in (addr + 1)..(addr + size) : mem[i] = ErasedByte

\* number of medium calls an API call may make before the medium fails; the
\* simulated EEPROM never fails inside its range
NoFail == 1000000

\* the budget of a medium whose next read fails and that works again after it
FailOnce == 0 - 1

\* A device during one API call: the bytes, the medium calls made so far
\* and the number of calls that will still succeed.
Dev(m, budget) == [mem |-> m, log |-> <<>>, left |-> budget]

LogEntry(kind, addr, size, ok) ==
    [kind |-> kind, addr |-> addr, size |-> size, ok |-> ok]

\* storage->ops.read: eeprom_read
DevRead(d, addr, size) ==
    LET ok == d.left > 0 /\ addr + size <= storage.size
    IN  [ok   |-> ok,
         data |-> IF ok THEN SubSeq(d.mem, addr + 1, addr + size) ELSE <<>>,
         d    |-> [d EXCEPT !.log = Append(@, LogEntry("read", addr, size, ok)),
                            !.left = IF ok THEN @ - 1
                                     ELSE IF @ = FailOnce THEN NoFail ELSE @]]

\* storage->ops.write: eeprom_write, or flash_write on a device that needs
\* erasing; bytes[off + 1 .. off + size] are stored
DevWriteAt(d, addr, bytes, off, size) ==
    LET ok == /\ d.left > 0 /\ addr + size <= storage.size
              /\ storage.need_erase => Erased(d.mem, addr, size)
    IN  [ok |-> ok,
         d  |-> [mem  |-> IF ok /\ size > 0
                          THEN SubSeq(d.mem, 1, addr)
                                   \o SubSeq(bytes, off + 1, off + size)
                                   \o SubSeq(d.mem, addr + size + 1, Len(d.mem))
                          ELSE d.mem,
                 log  |-> Append(d.log, LogEntry("write", addr, size, ok)),
                 left |-> IF ok THEN d.left - 1 ELSE d.left]]

DevWrite(d, addr, bytes) == DevWriteAt(d, addr, bytes, 0, Len(bytes))

---------------------------------------------------------------------------
(* The instance and its records *)

ZeroWord == <<0, 0, 0, 0>>

\* acfs_header_t after memset(0)
ZeroHeader ==
    [magic |-> ZeroWord, version |-> 0, cluster_size |-> 0,
     total_clusters |-> 0, sys_clusters |-> 0, data_entries |-> 0,
     free_clusters |-> 0, crc32 |-> ZeroWord]

\* acfs_data_entry_t after calloc / memset(0).  data_id is the string held in
\* the array (the characters before the terminator); ptr tells what the
\* cluster_list pointer is: "null", "heap" (a list owned by the entry, held in
\* cluster_list) or "wild" (pointer bytes read back from the medium).
ZeroEntry ==
    [data_id |-> <<>>, data_size |-> 0, cluster_count |-> 0, ptr |-> "null",
     cluster_list |-> <<>>, crc32 |-> ZeroWord, is_valid |-> FALSE]

\* acfs_t after memset(0).  entries is the calloc'ed array (empty when there
\* is none), bitmap the set of cluster indices whose bit is set, bitmap_size
\* the number of bytes of the bitmap.
ZeroAcfs ==
    [initialized |-> FALSE, has_storage |-> FALSE, header |-> ZeroHeader,
     entries |-> <<>>, bitmap |-> {}, bitmap_size |-> 0]

---------------------------------------------------------------------------
(* Layout codec: the in-memory records as the bytes the code writes *)

\* the bytes of acfs_header_t before its crc32 field
HeaderPrefix(h) ==
    h.magic \o LE16(h.version) \o LE16(h.cluster_size) \o
    LE16(h.total_clusters) \o LE16(h.sys_clusters) \o LE16(h.data_entries) \o
    LE16(h.free_clusters)

HeaderBytes(h) == HeaderPrefix(h) \o h.crc32

\* acfs_crc32(&acfs->header, sizeof(acfs_header_t) - sizeof(uint32_t))
HeaderCrc(h) == acfs_crc32(HeaderPrefix(h), SizeofHeader - SizeofU32)

DecodeHeader(b) ==
    [magic          |-> SubSeq(b, 1, 4),
     version        |-> FromLE16(SubSeq(b, 5, 6)),
     cluster_size   |-> FromLE16(SubSeq(b, 7, 8)),
     total_clusters |-> FromLE16(SubSeq(b, 9, 10)),
     sys_clusters   |-> FromLE16(SubSeq(b, 11, 12)),
     data_entries   |-> FromLE16(SubSeq(b, 13, 14)),
     free_clusters  |-> FromLE16(SubSeq(b, 15, 16)),
     crc32          |-> SubSeq(b, 17, 20)]

\* the bytes of a cluster_list pointer: a null pointer is all zero, any
\* other pointer is some non-zero address
PtrBytes(ptr) == IF ptr = "null" THEN Zeros(8) ELSE <<1, 0, 0, 0, 0, 0, 0, 0>>

\* the 56 bytes of an acfs_data_entry_t: data_id[32], data_size, cluster_count,
\* 2 bytes of padding, the pointer, crc32, is_valid, 3 bytes of padding
EntryBytes(e) ==
    e.data_id \o Zeros(ACFS_MAX_DATA_ID_LEN - Len(e.data_id)) \o
    LE32(e.data_size) \o LE16(e.cluster_count) \o Zeros(2) \o
    PtrBytes(e.ptr) \o e.crc32 \o <<IF e.is_valid THEN 1 ELSE 0>> \o Zeros(3)

\* the string in a char array: the characters before the first NUL
RECURSIVE CString(_, _)
CString(b, i) ==
    IF i > Len(b) \/ b[i] = 0 THEN SubSeq(b, 1, i - 1) ELSE CString(b, i + 1)

DecodeEntry(b) ==
    [data_id       |-> CString(SubSeq(b, 1, ACFS_MAX_DATA_ID_LEN), 1),
     data_size     |-> FromLE32(SubSeq(b, 33, 36)),
     cluster_count |-> FromLE16(SubSeq(b, 37, 38)),
     ptr           |-> IF SubSeq(b, 41, 48) = Zeros(8) THEN "null" ELSE "wild",
     cluster_list  |-> <<>>,
     crc32         |-> SubSeq(b, 49, 52),
     is_valid      |-> b[53] # 0]

\* a cluster list as the bytes of an uint16_t array
RECURSIVE ListBytes(_, _)
ListBytes(list, i) ==
    IF i > Len(list) THEN <<>> ELSE LE16(list[i]) \o ListBytes(list, i + 1)

DecodeList(b, count) ==
    [i \in 1..count |-> FromLE16(SubSeq(b, 2 * i - 1, 2 * i))]

\* the entries array [0, n) as bytes
RECURSIVE EntriesBytes(_, _, _)
EntriesBytes(entries, i, n) ==
    IF i > n THEN <<>>
    ELSE EntryBytes(entries[i]) \o EntriesBytes(entries, i + 1, n)

---------------------------------------------------------------------------
(* Internal functions of the core *)

\* the result of an internal step: whether it succeeded (or its error code),
\* the instance and the device after it
Res(ret, a, d) == [ret |-> ret, a |-> a, d |-> d]

SetEntry(a, idx, e) == [a EXCEPT !.entries[idx] = e]

\* (sys_clusters * cluster_size - sizeof(acfs_header_t)) / sizeof(acfs_data_entry_t)
MaxEntriesAndOne(h) ==
    (h.sys_clusters * h.cluster_size - SizeofHeader) \div SizeofEntry + 1

MaxEntries(h) ==
    (h.sys_clusters * h.cluster_size - SizeofHeader) \div SizeofEntry

acfs_calculate_clusters_needed(cluster_size, data_size) ==
    ((data_size + cluster_size - 1) \div cluster_size) % U16Mod

\* character i (from 1) of a C string, its terminator included
CharAt(str, i) == IF i <= Len(str) THEN str[i] ELSE 0

\* strncmp(a, b, n) == 0
StrNCmpEq(a, b, n) ==
    \A i \in 1..Min(n, Min(Len(a), Len(b)) + 1) : CharAt(a, i) = CharAt(b, i)

\* a lookup whose loop starts at the second slot
FindSkippingFirstSlot(a, data_id) ==
    LET hits == {i \in 2..a.header.data_entries :
                    /\ a.entries[i].is_valid
                    /\ StrNCmpEq(a.entries[i].data_id, data_id,
                                 ACFS_MAX_DATA_ID_LEN)}
    IN  IF hits = {} THEN 0 ELSE CHOOSE i \in hits : \A j \in hits : i <= j

\* a lookup whose loop runs over the whole array, live slots or not
FindInAnySlot(a, data_id) ==
    LET hits == {i \in 1..Len(a.entries) :
                    /\ a.entries[i].is_valid
                    /\ StrNCmpEq(a.entries[i].data_id, data_id,
                                 ACFS_MAX_DATA_ID_LEN)}
    IN  IF hits = {} THEN 0 ELSE CHOOSE i \in hits : \A j \in hits : i <= j

\* the slot (from 1) of the first valid entry with this id, 0 for NULL
acfs_find_entry(a, data_id) ==
    LET hits == {i \in 1..a.header.data_entries :
                    /\ a.entries[i].is_valid
                    /\ StrNCmpEq(a.entries[i].data_id, data_id,
                                 ACFS_MAX_DATA_ID_LEN)}
    IN  IF hits = {} THEN 0 ELSE CHOOSE i \in hits : \A j \in hits : i <= j

\* the scan of acfs_allocate_clusters: the clear bits found from index i on
RECURSIVE ScanFree(_, _, _, _)
ScanFree(a, i, count, got) ==
    IF i >= a.header.total_clusters \/ Len(got) >= count THEN got
    ELSE ScanFree(a, i + 1, count,
                  IF i \in a.bitmap THEN got ELSE Append(got, i))

SeqRange(q) == {q[i] : i \in 1..Len(q)}

\* the highest index whose bit the scan looks at: that of the last cluster
\* it takes, or N - 1 when it does not find enough
LastScanned(a, count, got) ==
    IF count > 0 /\ Len(got) >= count THEN got[count]
    ELSE a.header.total_clusters - 1

\* the scan has to look at a bit beyond the bytes of the bitmap
ScanLeavesBitmap(a, count, got) ==
    /\ a.header.sys_clusters < a.header.total_clusters
    /\ LastScanned(a, count, got) >= 8 * a.bitmap_size

acfs_allocate_clusters(a, count) ==
    IF a.header.free_clusters < count
    THEN [ret |-> "NO_SPACE", a |-> a, list |-> <<>>]
    ELSE LET got == ScanFree(a, a.header.sys_clusters, count, <<>>)
         IN  IF ScanLeavesBitmap(a, count, got)
             THEN \* cluster_bitmap[byte_idx] lies beyond the calloc'ed bytes
                  [ret |-> "HEAP_OVERFLOW", a |-> a, list |-> <<>>]
             ELSE IF Len(got) < count
             THEN [ret |-> "NO_SPACE", a |-> a, list |-> <<>>]
             ELSE [ret  |-> "OK",
                   a    |-> [a EXCEPT
                               !.bitmap = @ \cup SeqRange(got),
                               !.header.free_clusters = (@ - count) % U16Mod],
                   list |-> got]

\* a release that counts the clusters free but leaves their bits set
FreeWithoutClearing(a, list, count) ==
    [a EXCEPT !.header.free_clusters = (@ + count) % U16Mod]

acfs_free_clusters(a, list, count) ==
    [a EXCEPT !.bitmap = @ \ {list[i] : i \in 1..count},
              !.header.free_clusters = (@ + count) % U16Mod]

acfs_load_header(a, d) ==
    LET r == DevRead(d, storage.start_addr, SizeofHeader)
    IN  IF ~r.ok THEN Res("IO_ERROR", a, r.d)
        ELSE LET h == DecodeHeader(r.data)
                 a1 == [a EXCEPT !.header = h]
             IN  IF h.magic # ACFS_MAGIC_NUMBER
                 THEN Res("INVALID_FILESYSTEM", a1, r.d)
                 ELSE IF HeaderCrc(h) # h.crc32
                 THEN Res("DATA_CORRUPTED", a1, r.d)
                 ELSE Res("OK", a1, r.d)

acfs_save_header(a, d) ==
    LET a1 == [a EXCEPT !.header.crc32 = HeaderCrc(a.header)]
        w == DevWrite(d, storage.start_addr, HeaderBytes(a1.header))
    IN  Res(IF w.ok THEN "OK" ELSE "IO_ERROR", a1, w.d)

\* address of the cluster list of slot i (from 0) when n entries are stored
ClusterListAddr(n, i) ==
    storage.start_addr + SizeofHeader + n * SizeofEntry
        + i * ACFS_MAX_CLUSTERS * SizeofU16

\* the loop of acfs_save_entries over the slots i (from 1) .. data_entries
RECURSIVE SaveLists(_, _, _)
SaveLists(a, d, i) ==
    IF i > a.header.data_entries THEN Res("OK", a, d)
    ELSE LET e == a.entries[i]
         IN  IF e.cluster_count > 0 /\ e.ptr # "null"
             THEN IF e.ptr # "heap" THEN Res("CRASH", a, d)
                  ELSE LET w == DevWrite(d,
                                  ClusterListAddr(a.header.data_entries, i - 1),
                                  ListBytes(e.cluster_list, 1))
                       IN  IF ~w.ok THEN Res("IO_ERROR", a, w.d)
                           ELSE SaveLists(a, w.d, i + 1)
             ELSE SaveLists(a, d, i + 1)

acfs_save_entries(a, d) ==
    LET w == DevWrite(d, storage.start_addr + SizeofHeader,
                      EntriesBytes(a.entries, 1, a.header.data_entries))
    IN  IF ~w.ok THEN Res("IO_ERROR", a, w.d) ELSE SaveLists(a, w.d, 1)

\* the loop of acfs_load_entries over the slots i (from 1) .. data_entries
RECURSIVE LoadLists(_, _, _)
LoadLists(a, d, i) ==
    IF i > a.header.data_entries THEN Res("OK", a, d)
    ELSE LET e == a.entries[i]
         IN  IF e.cluster_count > 0
             THEN LET r == DevRead(d,
                              ClusterListAddr(a.header.data_entries, i - 1),
                              e.cluster_count * SizeofU16)
                      e1 == [e EXCEPT !.ptr = "heap",
                                      !.cluster_list =
                                          IF r.ok
                                          THEN DecodeList(r.data, e.cluster_count)
                                          ELSE Zeros(e.cluster_count)]
                  IN  IF ~r.ok THEN Res("IO_ERROR", SetEntry(a, i, e1), r.d)
                      ELSE LoadLists(SetEntry(a, i, e1), r.d, i + 1)
             ELSE LoadLists(a, d, i + 1)

acfs_load_entries(a, d) ==
    LET n == a.header.data_entries
    IN  IF n * SizeofEntry = 0 THEN Res("OK", a, d)
        ELSE LET r == DevRead(d, storage.start_addr + SizeofHeader,
                              n * SizeofEntry)
             IN  IF ~r.ok THEN Res("IO_ERROR", a, r.d)
                 ELSE LoadLists(
                        [a EXCEPT !.entries =
                           [i \in 1..Len(a.entries) |->
                              IF i <= n
                              THEN DecodeEntry(SubSeq(r.data,
                                       (i - 1) * SizeofEntry + 1,
                                       i * SizeofEntry))
                              ELSE a.entries[i]]],
                        r.d, 1)

\* the clusters acfs_init_bitmap marks for the entries
EntryClusters(a) ==
    UNION {SeqRange(a.entries[i].cluster_list) :
             i \in {j \in 1..a.header.data_entries :
                      a.entries[j].is_valid /\ a.entries[j].ptr # "null"}}

acfs_init_bitmap(a) ==
    [a EXCEPT !.bitmap = 0..(a.header.sys_clusters - 1) \cup EntryClusters(a)]

---------------------------------------------------------------------------
(* The caller's memory *)

\* the byte string a caller passes to acfs_write: byte k (from 1) of the
\* pattern `fill`
DataByte(fill, k) == (fill + 7 * (k - 1)) % 256

\* the caller's memory from the data pointer on, as far as the write reads
\* it: the size bytes of the data, then whatever follows them in memory
\* (data.pad stands for those bytes)
CallerMem(data, size, len) ==
    SubSeq([k \in 1..len |->
              IF k <= size THEN DataByte(data.fill, k) ELSE data.pad], 1, len)

\* the value of every byte of a read buffer before the call
BufInit == 204

\* a null pointer passed for data_id: no string
NullId == <<-1>>

\* a null pointer passed for data: no bytes
NullData == [fill |-> -1, pad |-> -1]

---------------------------------------------------------------------------
(* Public API *)

\* the loop of acfs_write_clusters over list[i] (from 1) .. list[count]
RECURSIVE WriteClustersFrom(_, _, _, _, _)
WriteClustersFrom(a, d, list, mem, i) ==
    IF i > Len(list) THEN [ok |-> TRUE, d |-> d]
    ELSE LET w == DevWriteAt(d,
                    storage.start_addr + list[i] * a.header.cluster_size,
                    mem, (i - 1) * a.header.cluster_size,
                    a.header.cluster_size)
         IN  IF ~w.ok THEN [ok |-> FALSE, d |-> w.d]
             ELSE WriteClustersFrom(a, w.d, list, mem, i + 1)

acfs_write_clusters(a, d, list, count, data, size) ==
    WriteClustersFrom(a, d, SubSeq(list, 1, count),
                      CallerMem(data, size, count * a.header.cluster_size), 1)

\* the data of an entry written with the superblock saved before the data
\* clusters
WriteDataHeaderFirst(a, d, idx, data, size) ==
    LET e == [a.entries[idx] EXCEPT
                !.data_size = size,
                !.crc32 = acfs_crc32(CallerMem(data, size, size), size)]
        a1 == SetEntry(a, idx, e)
        h == acfs_save_header(a1, d)
    IN  IF h.ret # "OK" THEN h
        ELSE LET w == acfs_write_clusters(h.a, h.d, e.cluster_list,
                                          e.cluster_count, data, size)
             IN  IF ~w.ok THEN Res("IO_ERROR", h.a, w.d)
                 ELSE acfs_save_entries(h.a, w.d)

\* acfs_write from "entry->data_size = size" on, for the entry in slot idx
WriteData(a, d, idx, data, size) ==
    LET e == [a.entries[idx] EXCEPT
                !.data_size = size,
                !.crc32 = acfs_crc32(CallerMem(data, size, size), size)]
        a1 == SetEntry(a, idx, e)
    IN  IF e.cluster_count > 0 /\ e.ptr # "heap" THEN Res("CRASH", a1, d)
        ELSE LET w == acfs_write_clusters(a1, d, e.cluster_list,
                                          e.cluster_count, data, size)
             IN  IF ~w.ok THEN Res("IO_ERROR", a1, w.d)
                 ELSE LET h == acfs_save_header(a1, w.d)
                      IN  IF h.ret # "OK" THEN h
                          ELSE acfs_save_entries(h.a, h.d)

\* acfs_write, update of the existing entry in slot idx
WriteExisting(a, d, idx, needed, data, size) ==
    LET e == a.entries[idx]
    IN  IF e.cluster_count # needed
        THEN IF e.cluster_count > 0 /\ e.ptr # "heap" THEN Res("CRASH", a, d)
             ELSE LET a1 == acfs_free_clusters(a, e.cluster_list, e.cluster_count)
                      al == acfs_allocate_clusters(a1, needed)
                  IN  IF al.ret # "OK"
                      THEN Res(al.ret,
                               SetEntry(al.a, idx,
                                        [e EXCEPT !.ptr = "null",
                                                  !.cluster_list = <<>>]),
                               d)
                      ELSE WriteData(
                             SetEntry(al.a, idx,
                                      [e EXCEPT !.ptr = "heap",
                                                !.cluster_list = al.list,
                                                !.cluster_count = needed]),
                             d, idx, data, size)
        ELSE WriteData(a, d, idx, data, size)

\* acfs_write, creation of a new entry
WriteNew(a, d, data_id, needed, data, size) ==
    IF a.header.data_entries >= MaxEntries(a.header)
    THEN Res("CLUSTER_FULL", a, d)
    ELSE IF a.header.data_entries >= Len(a.entries)
    THEN \* &acfs->entries[data_entries] lies beyond the calloc'ed array
         Res("HEAP_OVERFLOW", a, d)
    ELSE LET idx == a.header.data_entries + 1
             e == [a.entries[idx] EXCEPT
                     !.data_id = SubSeq(data_id, 1,
                                   Min(Len(data_id), ACFS_MAX_DATA_ID_LEN - 1))]
             al == acfs_allocate_clusters(a, needed)
         IN  IF al.ret # "OK"
             THEN Res(al.ret,
                      SetEntry(al.a, idx,
                               [e EXCEPT !.ptr = "null", !.cluster_list = <<>>]),
                      d)
             ELSE WriteData(
                    [SetEntry(al.a, idx,
                              [e EXCEPT !.ptr = "heap",
                                        !.cluster_list = al.list,
                                        !.cluster_count = needed,
                                        !.is_valid = TRUE])
                       EXCEPT !.header.data_entries = (@ + 1) % U16Mod],
                    d, idx, data, size)

\* a length test that lets an id through that fills the whole field
IdLongerThanField(data_id) == Len(data_id) > ACFS_MAX_DATA_ID_LEN

\* acfs_write: "strlen(data_id) >= ACFS_MAX_DATA_ID_LEN"
IdTooLong(data_id) == Len(data_id) >= ACFS_MAX_DATA_ID_LEN

\* acfs_write(acfs, data_id, data, size) with a non-null acfs; data_id and
\* data may be null pointers
acfs_write(a, d, data_id, data, size) ==
    IF data_id = NullId \/ data = NullData \/ size = 0
    THEN Res("INVALID_PARAM", a, d)
    ELSE IF ~a.initialized THEN Res("NOT_INITIALIZED", a, d)
    ELSE IF IdTooLong(data_id) THEN Res("INVALID_PARAM", a, d)
    ELSE LET needed == acfs_calculate_clusters_needed(a.header.cluster_size, size)
             idx == acfs_find_entry(a, data_id)
         IN  IF idx # 0 THEN WriteExisting(a, d, idx, needed, data, size)
             ELSE WriteNew(a, d, data_id, needed, data, size)

\* the loop of acfs_read_clusters over list[i] (from 1) .. list[count]: the
\* bytes stored from the caller's data pointer on, and the device
RECURSIVE ReadClustersFrom(_, _, _, _, _, _)
ReadClustersFrom(a, d, list, count, i, got) ==
    IF i > count THEN [ok |-> TRUE, got |-> got, d |-> d]
    ELSE LET r == DevRead(d,
                    storage.start_addr + list[i] * a.header.cluster_size,
                    a.header.cluster_size)
         IN  IF ~r.ok THEN [ok |-> FALSE, got |-> got, d |-> r.d]
             ELSE ReadClustersFrom(a, r.d, list, count, i + 1, got \o r.data)

\* a read buffer of `size` bytes no call has stored into
FreshBuf(size) == SubSeq([k \in 1..size |-> BufInit], 1, size)

\* the outcome of a read: return value, the size bytes of the caller's
\* buffer, *actual_size (-1: not stored), and the number of bytes stored
\* beyond the end of the buffer
ReadRes(ret, d, out, actual, over) ==
    [ret |-> ret, d |-> d, out |-> out, actual_size |-> actual, overrun |-> over]

\* a size test that lets every buffer through
BufferNeverTooSmall(size, e) == FALSE

\* acfs_read: "size < entry->data_size"
BufferTooSmall(size, e) == size < e.data_size

\* a CRC test that passes whatever was read
CrcNeverDiffers(mem, e) == FALSE

\* acfs_read: "crc != entry->crc32"
CrcDiffers(mem, e) == acfs_crc32(mem, e.data_size) # e.crc32

\* acfs_read(acfs, data_id, data, size, &actual_size) with non-null pointers
acfs_read(a, d, data_id, size) ==
    LET untouched == FreshBuf(size)
    IN  IF ~a.initialized THEN ReadRes("NOT_INITIALIZED", d, untouched, -1, 0)
        ELSE LET idx == acfs_find_entry(a, data_id)
             IN  IF idx = 0 \/ ~a.entries[idx].is_valid
                 THEN ReadRes("DATA_NOT_FOUND", d, untouched, -1, 0)
                 ELSE LET e == a.entries[idx]
                      IN  IF BufferTooSmall(size, e)
                          THEN ReadRes("INVALID_PARAM", d, untouched, e.data_size, 0)
                          ELSE IF e.cluster_count > 0 /\ e.ptr # "heap"
                          THEN ReadRes("CRASH", d, untouched, -1, 0)
                          ELSE
    LET r == ReadClustersFrom(a, d, e.cluster_list, e.cluster_count, 1, <<>>)
        stored == Len(r.got)
        out == IF stored >= size THEN SubSeq(r.got, 1, size)
               ELSE r.got \o SubSeq(untouched, stored + 1, size)
        over == Max(0, stored - size)
        \* the memory at the data pointer, as far as the CRC reads it
        mem == IF stored >= e.data_size THEN r.got
               ELSE r.got \o SubSeq(FreshBuf(e.data_size), stored + 1,
                                    e.data_size)
    IN  IF ~r.ok THEN ReadRes("IO_ERROR", r.d, out, -1, over)
        ELSE IF CrcDiffers(mem, e)
        THEN ReadRes("CRC_MISMATCH", r.d, out, -1, over)
        ELSE ReadRes("OK", r.d, out, e.data_size, over)

\* a delete that zeroes the slot of the entry and leaves the entries above
\* it where they are
DeleteWithoutShift(a, d, data_id) ==
    IF ~a.initialized THEN Res("NOT_INITIALIZED", a, d)
    ELSE LET idx == acfs_find_entry(a, data_id)
         IN  IF idx = 0 \/ ~a.entries[idx].is_valid
             THEN Res("DATA_NOT_FOUND", a, d)
             ELSE LET e == a.entries[idx]
                  IN  IF e.cluster_count > 0 /\ e.ptr # "heap"
                      THEN Res("CRASH", a, d)
                      ELSE
    LET a1 == acfs_free_clusters(a, e.cluster_list, e.cluster_count)
        a2 == [a1 EXCEPT !.entries[idx] = ZeroEntry,
                         !.header.data_entries = @ - 1]
        h == acfs_save_header(a2, d)
    IN  IF h.ret # "OK" THEN h ELSE acfs_save_entries(h.a, h.d)

\* acfs_delete(acfs, data_id) with non-null pointers
acfs_delete(a, d, data_id) ==
    IF ~a.initialized THEN Res("NOT_INITIALIZED", a, d)
    ELSE LET idx == acfs_find_entry(a, data_id)
         IN  IF idx = 0 \/ ~a.entries[idx].is_valid
             THEN Res("DATA_NOT_FOUND", a, d)
             ELSE LET e == a.entries[idx]
                  IN  IF e.cluster_count > 0 /\ e.ptr # "heap"
                      THEN Res("CRASH", a, d)
                      ELSE
    LET a1 == acfs_free_clusters(a, e.cluster_list, e.cluster_count)
        n == a1.header.data_entries
        a2 == [a1 EXCEPT
                 !.entries = [i \in 1..Len(a1.entries) |->
                                IF i >= idx /\ i < n THEN a1.entries[i + 1]
                                ELSE IF i = n THEN ZeroEntry
                                ELSE a1.entries[i]],
                 !.header.data_entries = n - 1]
        h == acfs_save_header(a2, d)
    IN  IF h.ret # "OK" THEN h ELSE acfs_save_entries(h.a, h.d)

acfs_exists(a, data_id) ==
    /\ a.initialized
    /\ LET idx == acfs_find_entry(a, data_id)
       IN  idx # 0 /\ a.entries[idx].is_valid

\* acfs_get_size: the return value and *size (-1: not stored)
acfs_get_size(a, data_id) ==
    IF ~a.initialized THEN [ret |-> "NOT_INITIALIZED", size |-> -1]
    ELSE LET idx == acfs_find_entry(a, data_id)
         IN  IF idx = 0 \/ ~a.entries[idx].is_valid
             THEN [ret |-> "DATA_NOT_FOUND", size |-> -1]
             ELSE [ret |-> "OK", size |-> a.entries[idx].data_size]

\* acfs_get_free_space: the return value and *free_size (-1: not stored)
acfs_get_free_space(a) ==
    IF ~a.initialized THEN [ret |-> "NOT_INITIALIZED", free_size |-> -1]
    ELSE [ret |-> "OK",
          free_size |-> a.header.free_clusters * a.header.cluster_size]

\* acfs_get_stats: the return value and the four outputs (-1: not stored);
\* a used_size below 0 stands for the size_t the subtraction wraps to
acfs_get_stats(a) ==
    IF ~a.initialized
    THEN [ret |-> "NOT_INITIALIZED", total_size |-> -1, used_size |-> -1,
          free_size |-> -1, data_count |-> -1]
    ELSE LET area == (a.header.total_clusters - a.header.sys_clusters)
                        * a.header.cluster_size
             free == a.header.free_clusters * a.header.cluster_size
         IN  [ret |-> "OK", total_size |-> area, used_size |-> area - free,
              free_size |-> free, data_count |-> a.header.data_entries]

\* the loop of acfs_check_integrity from slot i on: the return value, the
\* device and the largest number of bytes stored beyond a temporary buffer
RECURSIVE CheckEntriesFrom(_, _, _, _)
CheckEntriesFrom(a, d, i, over) ==
    IF i > a.header.data_entries
    THEN [ret |-> "OK", d |-> d, overrun |-> over]
    ELSE LET e == a.entries[i]
         IN  IF ~e.is_valid THEN CheckEntriesFrom(a, d, i + 1, over)
             ELSE IF e.cluster_count > 0 /\ e.ptr # "heap"
             THEN [ret |-> "CRASH", d |-> d, overrun |-> over]
             ELSE
    LET r == ReadClustersFrom(a, d, e.cluster_list, e.cluster_count, 1, <<>>)
        stored == Len(r.got)
        over1 == Max(over, stored - e.data_size)
        \* the malloc'ed temp_data, as far as the CRC reads it
        mem == IF stored >= e.data_size THEN r.got
               ELSE r.got \o SubSeq(FreshBuf(e.data_size), stored + 1,
                                    e.data_size)
    IN  IF ~r.ok THEN [ret |-> "IO_ERROR", d |-> r.d, overrun |-> over1]
        ELSE IF acfs_crc32(mem, e.data_size) # e.crc32
        THEN [ret |-> "DATA_CORRUPTED", d |-> r.d, overrun |-> over1]
        ELSE CheckEntriesFrom(a, r.d, i + 1, over1)

\* acfs_check_integrity(acfs) with a non-null pointer
acfs_check_integrity(a, d) ==
    IF ~a.initialized THEN [ret |-> "NOT_INITIALIZED", d |-> d, overrun |-> 0]
    ELSE CheckEntriesFrom(a, d, 1, 0)

\* acfs_defragment(acfs) with a non-null pointer
acfs_defragment(a) ==
    IF ~a.initialized THEN "NOT_INITIALIZED" ELSE "OK"

PowersOfTwo == {2 ^ k : k \in 0..15}

\* the loop of acfs_format that zeroes the clusters i .. sys_clusters - 1
RECURSIVE ZeroSysClusters(_, _, _, _)
ZeroSysClusters(d, config, sys_clusters, i) ==
    IF i >= sys_clusters THEN [ok |-> TRUE, d |-> d]
    ELSE LET w == DevWrite(d, storage.start_addr + i * config.cluster_size,
                           Zeros(config.cluster_size))
         IN  IF ~w.ok THEN [ok |-> FALSE, d |-> w.d]
             ELSE ZeroSysClusters(w.d, config, sys_clusters, i + 1)

\* a header that counts the system clusters as free
FormatHeaderAllFree(config, total_clusters, sys_clusters) ==
    [magic |-> ACFS_MAGIC_NUMBER,
     version |-> ACFS_VERSION_MAJOR * 256 + ACFS_VERSION_MINOR,
     cluster_size |-> config.cluster_size,
     total_clusters |-> total_clusters,
     sys_clusters |-> sys_clusters,
     data_entries |-> 0,
     free_clusters |-> total_clusters,
     crc32 |-> ZeroWord]

\* acfs_format: the header it initialises, before the CRC is computed
FormatHeader(config, total_clusters, sys_clusters) ==
    [magic |-> ACFS_MAGIC_NUMBER,
     version |-> ACFS_VERSION_MAJOR * 256 + ACFS_VERSION_MINOR,
     cluster_size |-> config.cluster_size,
     total_clusters |-> total_clusters,
     sys_clusters |-> sys_clusters,
     data_entries |-> 0,
     free_clusters |-> (total_clusters - sys_clusters) % U16Mod,
     crc32 |-> ZeroWord]

\* acfs_format, "// compute the filesystem parameters" and "// initialise
\* the header": the geometry of a medium of this size, or INVALID_PARAM
FormatGeometry(size, config) ==
    LET total_clusters == (size \div config.cluster_size) % U16Mod
        auto == ((SizeofHeader + config.cluster_size - 1)
                    \div config.cluster_size) % U16Mod
        sys_clusters == IF config.reserved_clusters = 0
                        THEN (IF auto < 2 THEN 2 ELSE auto)
                        ELSE config.reserved_clusters
    IN  IF total_clusters = 0 \/ sys_clusters >= total_clusters
        THEN [ret |-> "INVALID_PARAM", header |-> ZeroHeader]
        ELSE [ret |-> "OK",
              header |-> FormatHeader(config, total_clusters, sys_clusters)]

\* acfs_format(acfs, config) with non-null pointers
acfs_format(a, d, config) ==
    IF ~a.has_storage THEN Res("INVALID_PARAM", a, d)
    ELSE
    LET g == FormatGeometry(storage.size, config)
    IN  IF g.ret # "OK" THEN Res(g.ret, a, d)
        ELSE
    LET s == acfs_save_header([a EXCEPT !.header = g.header], d)
    IN  IF s.ret # "OK" THEN s
        ELSE LET z == ZeroSysClusters(s.d, config, g.header.sys_clusters, 1)
             IN  Res(IF z.ok THEN "OK" ELSE "IO_ERROR", s.a, z.d)

\* acfs_init from "// allocate memory" on: the header is loaded or formatted
InitMount(a, d) ==
    LET max_entries == MaxEntries(a.header) % U16Mod
        a1 == [a EXCEPT
                 !.entries = [i \in 1..max_entries |-> ZeroEntry],
                 !.bitmap = {},
                 !.bitmap_size = (a.header.total_clusters + 7) \div 8]
        l == acfs_load_entries(a1, d)
    IN  IF l.ret # "OK"
        THEN Res(l.ret, [l.a EXCEPT !.entries = <<>>, !.bitmap_size = 0], l.d)
        ELSE Res("OK", [acfs_init_bitmap(l.a) EXCEPT !.initialized = TRUE], l.d)

NeverMounted(a) == FALSE

\* acfs_init: "acfs->initialized"
AlreadyMounted(a) == a.initialized

\* acfs_init(acfs, storage, config) with non-null pointers
acfs_init(a, d, config) ==
    IF AlreadyMounted(a) THEN Res("ALREADY_INITIALIZED", a, d)
    ELSE IF \/ config.cluster_size < ACFS_CLUSTER_SIZE_MIN
            \/ config.cluster_size > ACFS_CLUSTER_SIZE_MAX
            \/ config.cluster_size \notin PowersOfTwo
    THEN Res("INVALID_PARAM", a, d)
    ELSE
    LET l == acfs_load_header([ZeroAcfs EXCEPT !.has_storage = TRUE], d)
        valid == /\ l.ret = "OK"
                 /\ l.a.header.magic = ACFS_MAGIC_NUMBER
                 /\ l.a.header.cluster_size = config.cluster_size
    IN  IF valid THEN InitMount(l.a, l.d)
        ELSE IF ~config.format_if_invalid
        THEN Res("INVALID_FILESYSTEM", l.a, l.d)
        ELSE LET f == acfs_format(l.a, l.d, config)
             IN  IF f.ret # "OK" THEN f ELSE InitMount(f.a, f.d)

DeinitUnchecked(a) == [ret |-> "OK", a |-> ZeroAcfs]

\* acfs_deinit(acfs) with a non-null pointer
acfs_deinit(a) ==
    IF ~a.initialized THEN [ret |-> "NOT_INITIALIZED", a |-> a]
    ELSE [ret |-> "OK", a |-> ZeroAcfs]

---------------------------------------------------------------------------
(* The calls a behaviour may make *)

\* data identifiers: "a" and "b"
Ids == {<<97>>, <<98>>}

\* data sizes: within one cluster, two clusters, more than the medium holds
Sizes == {3, 100, 1985}

\* the caller's memory at the data pointer: the byte pattern of the data,
\* and what follows the data
CallerData == {[fill |-> 1, pad |-> 0], [fill |-> 2, pad |-> 238]}

\* sizes of the caller's read buffer
BufLens == {2, 3, 128}

\* acfs_config_t as passed to acfs_format
Geometries ==
    [cluster_size : {64}, reserved_clusters : {0, 3},
     format_if_invalid : {TRUE}]

\* acfs_config_t as passed to acfs_init
Configs ==
    Geometries \cup
    [cluster_size : {64}, reserved_clusters : {0}, format_if_invalid : {FALSE}]

NoConfig ==
    [cluster_size |-> 0, reserved_clusters |-> 0, format_if_invalid |-> FALSE]

NoData == [fill |-> 0, pad |-> 0]

\* whether the medium holds a superblock acfs_init accepts for this config
ValidFilesystem(m, config) ==
    LET h == DecodeHeader(SubSeq(m, storage.start_addr + 1,
                                 storage.start_addr + SizeofHeader))
    IN  /\ h.magic = ACFS_MAGIC_NUMBER
        /\ h.crc32 = HeaderCrc(h)
        /\ h.cluster_size = config.cluster_size

\* what a call finds: the instance, whether the id it names is in the
\* directory and with which size, whether the medium holds a filesystem
Before(a, m, id, config) ==
    [a |-> a,
     present |-> acfs_exists(a, id),
     data_size |-> acfs_get_size(a, id).size,
     valid_fs |-> ValidFilesystem(m, config)]

\* the record of a call: what was called with which arguments, what it
\* found, what it returned and stored for the caller, and the medium calls
\* it made
Call(op, ret, log, pre) ==
    [op |-> op, ret |-> ret, log |-> log, pre |-> pre, id |-> <<>>,
     size |-> 0, data |-> NoData, config |-> NoConfig, out |-> <<>>,
     actual_size |-> -1, overrun |-> 0, obs |-> <<>>, inst |-> TRUE]

\* what the API shows of an instance: for every id whether it exists, its
\* size and what a read into a buffer of whole clusters returns; the free
\* space and the data count
Observe(a, m) ==
    [ids |-> [id \in Ids |->
               LET idx == acfs_find_entry(a, id)
                   len == IF idx = 0 THEN 0
                          ELSE Max(a.entries[idx].data_size,
                                   a.entries[idx].cluster_count
                                       * a.header.cluster_size)
                   r == acfs_read(a, Dev(m, NoFail), id, len)
               IN  [exists |-> acfs_exists(a, id),
                    size |-> acfs_get_size(a, id),
                    read_ret |-> r.ret,
                    read_len |-> r.actual_size,
                    read_data |-> IF r.ret = "OK"
                                  THEN SubSeq(r.out, 1, r.actual_size)
                                  ELSE <<>>]],
     free_space |-> acfs_get_free_space(a),
     data_count |-> acfs_get_stats(a).data_count,
     cluster_size |-> a.header.cluster_size]

\* a call in short: what was called for which id, what it returned and
\* whether it found the id in the directory
Short(call) ==
    [op |-> call.op, ret |-> call.ret, id |-> call.id,
     present |-> call.pre.present]

\* a call that did not return: it dereferenced a null or stale pointer, or
\* stored beyond an allocation
Faulted(ret) == ret \in {"CRASH", "HEAP_OVERFLOW"}

\* a call made in the wrong lifecycle state: a behaviour ends with it
Misplaced(ret) == ret \in {"NOT_INITIALIZED", "ALREADY_INITIALIZED"}

CanMount ==
    mounts > 0 /\ ~Faulted(last.ret) /\ ~Misplaced(last.ret)

CanCall ==
    steps > 0 /\ ~Faulted(last.ret) /\ ~Misplaced(last.ret)

\* a zeroed instance and a fresh device, with a budget of calls
StartOn(device, budget) ==
    /\ storage = device
    /\ medium = FreshMedium
    /\ acfs = ZeroAcfs
    /\ last = Call("none", "OK", <<>>, Before(ZeroAcfs, FreshMedium, <<>>, NoConfig))
    /\ prev = Short(last)
    /\ steps = budget
    /\ mounts = MaxMounts

\* the same on the simulated EEPROM
Start(budget) == StartOn(EepromDevice, budget)

Init == Start(MaxSteps)

DoInit(config) ==
    /\ CanMount
    /\ LET r == acfs_init(acfs, Dev(medium, NoFail), config)
       IN  /\ acfs' = r.a
           /\ medium' = r.d.mem
           /\ last' = [Call("init", r.ret, r.d.log,
                            Before(acfs, medium, <<>>, config))
                         EXCEPT !.config = config]
    /\ prev' = Short(last)
    /\ mounts' = mounts - 1
    /\ UNCHANGED <<storage, steps>>

\* acfs_init on a medium that fails after `budget` medium calls
DoInitFailing(config, budget) ==
    /\ CanMount
    /\ LET r == acfs_init(acfs, Dev(medium, budget), config)
       IN  /\ acfs' = r.a
           /\ medium' = r.d.mem
           /\ last' = [Call("init", r.ret, r.d.log,
                            Before(acfs, medium, <<>>, config))
                         EXCEPT !.config = config]
    /\ prev' = Short(last)
    /\ mounts' = mounts - 1
    /\ UNCHANGED <<storage, steps>>

DoDeinit ==
    /\ CanMount
    /\ LET r == acfs_deinit(acfs)
       IN  /\ acfs' = r.a
           /\ last' = [Call("deinit", r.ret, <<>>,
                            Before(acfs, medium, <<>>, NoConfig))
                         EXCEPT !.obs = IF r.ret = "OK"
                                        THEN <<Observe(acfs, medium)>>
                                        ELSE <<>>]
    /\ prev' = Short(last)
    /\ mounts' = mounts - 1
    /\ UNCHANGED <<storage, medium, steps>>

DoFormat(config) ==
    /\ CanCall
    /\ LET r == acfs_format(acfs, Dev(medium, NoFail), config)
       IN  /\ acfs' = r.a
           /\ medium' = r.d.mem
           /\ last' = [Call("format", r.ret, r.d.log,
                            Before(acfs, medium, <<>>, config))
                         EXCEPT !.config = config]
    /\ prev' = Short(last)
    /\ steps' = steps - 1
    /\ UNCHANGED <<storage, mounts>>

DoWrite(id, size, data) ==
    /\ CanCall
    /\ LET r == acfs_write(acfs, Dev(medium, NoFail), id, data, size)
       IN  /\ acfs' = r.a
           /\ medium' = r.d.mem
           /\ last' = [Call("write", r.ret, r.d.log,
                            Before(acfs, medium, id, NoConfig))
                         EXCEPT !.id = id, !.size = size, !.data = data]
    /\ prev' = Short(last)
    /\ steps' = steps - 1
    /\ UNCHANGED <<storage, mounts>>

DoRead(id, size) ==
    /\ CanCall
    /\ LET r == acfs_read(acfs, Dev(medium, NoFail), id, size)
       IN  last' = [Call("read", r.ret, r.d.log,
                         Before(acfs, medium, id, NoConfig))
                      EXCEPT !.id = id, !.size = size, !.out = r.out,
                             !.actual_size = r.actual_size,
                             !.overrun = r.overrun]
    /\ prev' = Short(last)
    /\ steps' = steps - 1
    /\ UNCHANGED <<storage, medium, acfs, mounts>>

DoDelete(id) ==
    /\ CanCall
    /\ LET r == acfs_delete(acfs, Dev(medium, NoFail), id)
       IN  /\ acfs' = r.a
           /\ medium' = r.d.mem
           /\ last' = [Call("delete", r.ret, r.d.log,
                            Before(acfs, medium, id, NoConfig))
                         EXCEPT !.id = id]
    /\ prev' = Short(last)
    /\ steps' = steps - 1
    /\ UNCHANGED <<storage, mounts>>

Next ==
    \/ \E config \in Configs : DoInit(config)
    \/ DoDeinit
    \/ \E config \in Geometries : DoFormat(config)
    \/ \E id \in Ids, size \in Sizes, data \in CallerData :
          DoWrite(id, size, data)
    \/ \E id \in Ids, size \in BufLens : DoRead(id, size)
    \/ \E id \in Ids : DoDelete(id)

Spec == Init /\ [][Next]_vars

\* blobs whose cluster list is longer than the reserved region has room for
LargeSizes == {1700}

\* read buffers for them: of the data size, and of whole clusters
LargeBufLens == {1700, 1728}

\* they are stored under one id
LargeIds == {<<97>>}

NextLarge ==
    \/ \E config \in Configs : DoInit(config)
    \/ DoDeinit
    \/ \E config \in Geometries : DoFormat(config)
    \/ \E id \in LargeIds, size \in LargeSizes, data \in CallerData :
          DoWrite(id, size, data)
    \/ \E id \in LargeIds, size \in LargeBufLens : DoRead(id, size)
    \/ \E id \in LargeIds : DoDelete(id)

SpecLarge == Init /\ [][NextLarge]_vars

\* a directory that is filled, emptied and mounted again: a one-cluster and
\* an oversized blob under either id, on the geometry with the larger
\* directory
DeepSizes == {3, 1985}

DeepData == {[fill |-> 1, pad |-> 0]}

DeepBufLens == {3}

DeepConfigs == {c \in Geometries : c.reserved_clusters = 3}

InitDeep == Start(DeepSteps)

NextDeep ==
    \/ \E config \in DeepConfigs : DoInit(config)
    \/ DoDeinit
    \/ \E config \in DeepConfigs : DoFormat(config)
    \/ \E id \in Ids, size \in DeepSizes, data \in DeepData :
          DoWrite(id, size, data)
    \/ \E id \in Ids, size \in DeepBufLens : DoRead(id, size)
    \/ \E id \in Ids : DoDelete(id)

SpecDeep == InitDeep /\ [][NextDeep]_vars

\* acfs_write(NULL, data_id, data, size): no instance is involved
DoWriteNull(id, size, data) ==
    /\ CanCall
    /\ last' = [Call("write", "INVALID_PARAM", <<>>,
                     Before(acfs, medium, id, NoConfig))
                  EXCEPT !.id = id, !.size = size, !.data = data,
                         !.inst = FALSE]
    /\ prev' = Short(last)
    /\ steps' = steps - 1
    /\ UNCHANGED <<storage, medium, acfs, mounts>>

\* the bytes acfs_read_clusters stores behind the temp_data of the live
\* entry j: what its clusters hold from offset data_size on
Spilled(a, m, j) ==
    LET e == a.entries[j]
        r == ReadClustersFrom(a, Dev(m, NoFail), e.cluster_list,
                              e.cluster_count, 1, <<>>)
    IN  IF e.ptr = "heap" /\ r.ok /\ Len(r.got) > e.data_size
        THEN SubSeq(r.got, e.data_size + 1, Len(r.got))
        ELSE <<>>

\* the instance after acfs_check_integrity stored `overrun` bytes behind a
\* temp_data allocation.  The bytes land in the heap, where the cluster
\* lists of the entries are malloc'ed as well: either they hit nothing the
\* instance uses, or they replace the indices of the list of a live entry.
HeapAfter(a, m, overrun) ==
    LET live == 1..a.header.data_entries
        lists == {i \in live : a.entries[i].ptr = "heap"}
        spills == {j \in live :
                     /\ Len(Spilled(a, m, j)) > 0
                     /\ \A i \in lists :
                           Len(Spilled(a, m, j))
                              >= 2 * Len(a.entries[i].cluster_list)}
    IN  IF overrun = 0 THEN {a}
        ELSE {a} \cup
             {[a EXCEPT !.entries[i].cluster_list =
                  [k \in 1..Len(@) |->
                     FromLE16(SubSeq(Spilled(a, m, j), 2 * k - 1, 2 * k))]] :
                i \in lists, j \in spills}

DoCheckIntegrity ==
    /\ CanCall
    /\ LET r == acfs_check_integrity(acfs, Dev(medium, NoFail))
       IN  \E a \in HeapAfter(acfs, medium, r.overrun) :
              /\ acfs' = a
              /\ last' = [Call("check_integrity",
                               IF a = acfs THEN r.ret ELSE "HEAP_OVERFLOW",
                               r.d.log, Before(acfs, medium, <<>>, NoConfig))
                            EXCEPT !.overrun = r.overrun]
    /\ prev' = Short(last)
    /\ steps' = steps - 1
    /\ UNCHANGED <<storage, medium, mounts>>

DoDefragment ==
    /\ CanCall
    /\ last' = Call("defragment", acfs_defragment(acfs), <<>>,
                    Before(acfs, medium, <<>>, NoConfig))
    /\ prev' = Short(last)
    /\ steps' = steps - 1
    /\ UNCHANGED <<storage, medium, acfs, mounts>>

\* calls with arguments the API has to reject, and calls made in the wrong
\* lifecycle state: the ids "a", one of 31 and one of 32 characters, the
\* empty string and the null pointer; sizes 0 and 3; data or a null pointer
ArgSteps == 2

Id31 == SubSeq([k \in 1..31 |-> 97 + (k % 26)], 1, 31)

Id32 == SubSeq([k \in 1..32 |-> 97 + (k % 26)], 1, 32)

ArgIds == {<<97>>, Id31, Id32, <<>>, NullId}

ArgSizes == {0, 3}

ArgData == {[fill |-> 1, pad |-> 0], NullData}

\* cluster sizes acfs_init turns away: not a power of two, below the
\* smallest (one of them below the size of the superblock) and above the
\* largest
BadConfigs ==
    [cluster_size : {48, 16, ACFS_CLUSTER_SIZE_MIN \div 2,
                     ACFS_CLUSTER_SIZE_MAX * 2},
     reserved_clusters : {0}, format_if_invalid : {TRUE}]

\* a reserved region that takes the whole medium
BadGeometries ==
    [cluster_size : {64}, reserved_clusters : {StorageSize \div 64},
     format_if_invalid : {TRUE}]

\* a reserved region of one cluster
SmallGeometries ==
    [cluster_size : {64}, reserved_clusters : {1}, format_if_invalid : {TRUE}]

InitArgs == Start(ArgSteps)

NextArgs ==
    \/ \E config \in Configs \cup BadConfigs \cup BadGeometries
                        \cup SmallGeometries :
          DoInit(config)
    \/ DoDeinit
    \/ \E config \in BadGeometries \cup BadConfigs : DoFormat(config)
    \/ \E id \in ArgIds, size \in ArgSizes, data \in ArgData :
          DoWrite(id, size, data)
    \/ \E id \in ArgIds, size \in ArgSizes, data \in ArgData :
          DoWriteNull(id, size, data)
    \/ \E id \in ArgIds \ {NullId}, size \in BufLens : DoRead(id, size)
    \/ \E id \in ArgIds \ {NullId} : DoDelete(id)
    \/ DoCheckIntegrity
    \/ DoDefragment

SpecArgs == InitArgs /\ [][NextArgs]_vars

\* the same calls on a simulated flash device, with blobs of one and of two
\* clusters
FlashSteps == 2

FlashSizes == {3, 100}

InitFlash == StartOn(FlashDevice, FlashSteps)

NextFlash ==
    \/ \E config \in Configs : DoInit(config)
    \/ DoDeinit
    \/ \E config \in Geometries : DoFormat(config)
    \/ \E id \in Ids, size \in FlashSizes, data \in CallerData :
          DoWrite(id, size, data)
    \/ \E id \in Ids, size \in BufLens : DoRead(id, size)
    \/ \E id \in Ids : DoDelete(id)

SpecFlash == InitFlash /\ [][NextFlash]_vars

\* the geometry acfs_format computes, for media from one cluster up to more
\* than 65535 clusters of 64 bytes, every valid cluster size and hints from
\* none to the whole medium
GeomSizes == {64, 2048, 4096, 8192, 65536 * 64, (65536 + 32) * 64}

GeomClusterSizes == {64, 128, 256, 512, 1024, 2048, 4096}

GeomHints == {0, 1, 2, 3, 32}

GeomConfigs ==
    [cluster_size : GeomClusterSizes, reserved_clusters : GeomHints,
     format_if_invalid : {TRUE}]

InitGeom ==
    /\ storage = EepromDevice
    /\ medium = FreshMedium
    /\ acfs = ZeroAcfs
    /\ \E size \in GeomSizes, config \in GeomConfigs :
          last = [Call("none", "OK", <<>>,
                       Before(ZeroAcfs, FreshMedium, <<>>, config))
                    EXCEPT !.size = size, !.config = config]
    /\ prev = Short(last)
    /\ steps = 1
    /\ mounts = 0

\* the geometry part of acfs_format for the size and configuration drawn
DoGeometry ==
    /\ steps > 0 /\ last.op = "none"
    /\ LET g == FormatGeometry(last.size, last.config)
       IN  last' = [Call("geometry", g.ret, <<>>, last.pre)
                      EXCEPT !.size = last.size, !.config = last.config,
                             !.obs = <<g.header>>]
    /\ prev' = Short(last)
    /\ steps' = steps - 1
    /\ UNCHANGED <<storage, medium, acfs, mounts>>

NextGeom == DoGeometry

SpecGeom == InitGeom /\ [][NextGeom]_vars

\* acfs_write on a medium that fails after `budget` medium calls
DoWriteFailing(id, size, data, budget) ==
    /\ CanCall
    /\ LET r == acfs_write(acfs, Dev(medium, budget), id, data, size)
       IN  /\ acfs' = r.a
           /\ medium' = r.d.mem
           /\ last' = [Call("write", r.ret, r.d.log,
                            Before(acfs, medium, id, NoConfig))
                         EXCEPT !.id = id, !.size = size, !.data = data]
    /\ prev' = Short(last)
    /\ steps' = steps - 1
    /\ UNCHANGED <<storage, mounts>>

\* acfs_delete on a medium that fails after `budget` medium calls
DoDeleteFailing(id, budget) ==
    /\ CanCall
    /\ LET r == acfs_delete(acfs, Dev(medium, budget), id)
       IN  /\ acfs' = r.a
           /\ medium' = r.d.mem
           /\ last' = [Call("delete", r.ret, r.d.log,
                            Before(acfs, medium, id, NoConfig))
                         EXCEPT !.id = id]
    /\ prev' = Short(last)
    /\ steps' = steps - 1
    /\ UNCHANGED <<storage, mounts>>

\* writes and deletes on a medium that fails at the first, second, ...
\* medium call of an API call, or not at all
IoSteps == 3

IoBudgets == {0, 1, 2, 3, 4, NoFail}

IoSizes == {3, 100}

IoData == {[fill |-> 1, pad |-> 0]}

InitIo == Start(IoSteps)

NextIo ==
    \/ \E config \in Geometries : DoInit(config)
    \/ \E id \in Ids, size \in IoSizes, data \in IoData, budget \in IoBudgets :
          DoWriteFailing(id, size, data, budget)
    \/ \E id \in Ids, budget \in IoBudgets : DoDeleteFailing(id, budget)

SpecIo == InitIo /\ [][NextIo]_vars

\* writes that the medium stops after the first, the second or the last
\* data cluster: blobs of one cluster and of 1700 bytes under either id
LossSteps == 2

LossBudgets == {1, 2, 27, NoFail}

LossSizes == {3, 1700}

InitLoss == Start(LossSteps)

NextLoss ==
    \/ \E config \in Geometries : DoInit(config)
    \/ \E id \in Ids, size \in LossSizes, data \in IoData,
          budget \in LossBudgets :
          DoWriteFailing(id, size, data, budget)

SpecLoss == InitLoss /\ [][NextLoss]_vars

\* mounts of a medium whose first read fails, for good or once: a blob under
\* either id is written, the instance is released and mounted again
BootSteps == 2

BootBudgets == {0, FailOnce}

BootSizes == {3, 100}

InitBoot == Start(BootSteps)

NextBoot ==
    \/ \E config \in Configs : DoInit(config)
    \/ \E config \in Configs, budget \in BootBudgets :
          DoInitFailing(config, budget)
    \/ DoDeinit
    \/ \E id \in Ids, size \in BootSizes, data \in IoData :
          DoWrite(id, size, data)

SpecBoot == InitBoot /\ [][NextBoot]_vars

\* the cluster count of a write, for the valid cluster sizes and for data
\* sizes around one cluster, around 65535 clusters of 64 bytes and up to the
\* largest the model can hold
NeedSizes ==
    {1, 3, 63, 64, 65, 100, 1700, 1985, 2048, 4096, 4097,
     65535 * 64, 65535 * 64 + 1, 65536 * 64, 65536 * 64 + 3,
     65535 * 4096 + 1, 2147479552}

InitNeed ==
    /\ storage = EepromDevice
    /\ medium = FreshMedium
    /\ acfs = ZeroAcfs
    /\ \E size \in NeedSizes, config \in GeomConfigs :
          last = [Call("none", "OK", <<>>,
                       Before(ZeroAcfs, FreshMedium, <<>>, config))
                    EXCEPT !.size = size, !.config = config]
    /\ prev = Short(last)
    /\ steps = 1
    /\ mounts = 0

\* acfs_write: "clusters_needed = acfs_calculate_clusters_needed(...)" for
\* the size and the cluster size drawn; obs holds the count
DoNeeded ==
    /\ steps > 0 /\ last.op = "none"
    /\ LET needed == acfs_calculate_clusters_needed(last.config.cluster_size,
                                                    last.size)
       IN  last' = [Call("needed", "OK", <<>>, last.pre)
                      EXCEPT !.size = last.size, !.config = last.config,
                             !.obs = <<needed>>]
    /\ prev' = Short(last)
    /\ steps' = steps - 1
    /\ UNCHANGED <<storage, medium, acfs, mounts>>

NextNeed == DoNeeded

SpecNeed == InitNeed /\ [][NextNeed]_vars

\* a medium that is formatted again, with the other of two cluster sizes,
\* while the instance is mounted; blobs of one cluster and of 1000 bytes
ReformatSteps == 2

ReformatSizes == {3, 1000}

ReformatBufLens == {1024}

ReformatGeometries ==
    [cluster_size : {64, 128}, reserved_clusters : {0},
     format_if_invalid : {TRUE}]

InitReformat == Start(ReformatSteps)

NextReformat ==
    \/ \E config \in ReformatGeometries : DoInit(config)
    \/ DoDeinit
    \/ \E config \in ReformatGeometries : DoFormat(config)
    \/ \E id \in Ids, size \in ReformatSizes, data \in IoData :
          DoWrite(id, size, data)
    \/ \E id \in Ids, size \in ReformatBufLens : DoRead(id, size)
    \/ \E id \in Ids : DoDelete(id)

SpecReformat == InitReformat /\ [][NextReformat]_vars

\* what a read of this id into a buffer of whole clusters returns
ReadBack(a, m, id) == Observe(a, m).ids[id]

\* the medium address of the byte at this offset of the clusters of slot idx
BlobAddr(a, idx, offset) ==
    storage.start_addr
        + a.entries[idx].cluster_list[offset \div a.header.cluster_size + 1]
            * a.header.cluster_size
        + (offset % a.header.cluster_size)

\* the places at which a blob is damaged: its first and last byte, the
\* first byte after it and the last byte of its last cluster
FaultPlaces == {"first", "last", "after", "end"}

FaultOffset(e, cluster_size, place) ==
    CASE place = "first" -> 0
      [] place = "last"  -> e.data_size - 1
      [] place = "after" -> e.data_size
      [] place = "end"   -> e.cluster_count * cluster_size - 1

\* what is added to the damaged byte
FaultDeltas == {1, 128}

\* a byte of the blob just written changes on the medium behind the engine
DoCorrupt(place, delta) ==
    /\ CanCall
    /\ last.op = "write" /\ last.ret = "OK"
    /\ LET idx == acfs_find_entry(acfs, last.id)
           offset == FaultOffset(acfs.entries[idx], acfs.header.cluster_size,
                                 place)
           addr == BlobAddr(acfs, idx, offset)
       IN  /\ idx # 0
           /\ offset < acfs.entries[idx].cluster_count * acfs.header.cluster_size
           /\ medium' = SubSeq(medium, 1, addr)
                          \o <<(medium[addr + 1] + delta) % 256>>
                          \o SubSeq(medium, addr + 2, Len(medium))
           /\ last' = [Call("corrupt", "OK", <<>>,
                            Before(acfs, medium, last.id, NoConfig))
                         EXCEPT !.id = last.id, !.size = offset,
                                !.obs = <<ReadBack(acfs, medium, last.id)>>]
    /\ prev' = Short(last)
    /\ steps' = steps - 1
    /\ UNCHANGED <<storage, acfs, mounts>>

\* blobs that are damaged on the medium and written again: of less than a
\* cluster, of two clusters, and with a cluster list longer than the
\* reserved region has room for
FaultSteps == 4

FaultSizes == {3, 100, 1700}

FaultBufLens == {1728}

FaultConfigs == {c \in Geometries : c.reserved_clusters = 0}

InitFault == Start(FaultSteps)

NextFault ==
    \/ \E config \in FaultConfigs : DoInit(config)
    \/ \E id \in LargeIds, size \in FaultSizes, data \in CallerData :
          DoWrite(id, size, data)
    \/ \E place \in FaultPlaces, delta \in FaultDeltas :
          DoCorrupt(place, delta)
    \/ \E id \in LargeIds, size \in FaultBufLens : DoRead(id, size)

SpecFault == InitFault /\ [][NextFault]_vars

---------------------------------------------------------------------------
(* Properties *)

\* the slots [0, data_entries) of the directory, counted from 1
LiveSlots(a) == 1..a.header.data_entries

RECURSIVE SumClusterCount(_, _)
SumClusterCount(a, n) ==
    IF n = 0 THEN 0
    ELSE a.entries[n].cluster_count + SumClusterCount(a, n - 1)

\* the bytes b[0..n) a write was given
Written(call) == CallerMem(call.data, call.size, call.size)

\* C1: when acfs_write(id, b, n) returned OK and is immediately followed by
\* acfs_read of the same id with buf_len >= n, the read returns OK, stores n
\* into out_len and the first n bytes of the buffer are b[0..n).
RoundTrip ==
    [][(/\ last.op = "write" /\ last.ret = "OK"
        /\ last'.op = "read" /\ last'.id = last.id
        /\ last'.size >= last.size)
       => (/\ last'.ret = "OK"
           /\ last'.actual_size = last.size
           /\ SubSeq(last'.out, 1, last.size) = Written(last))]_vars

\* C2: in every mounted state free_clusters plus the cluster_count of all
\* live entries plus sys_clusters equals total_clusters.
ClusterAccounting ==
    acfs.initialized =>
        acfs.header.free_clusters
            + SumClusterCount(acfs, acfs.header.data_entries)
            + acfs.header.sys_clusters
        = acfs.header.total_clusters

\* C3: in every mounted state every cluster index of a live entry's
\* cluster_list lies in [sys_clusters, total_clusters), and no index appears
\* twice in one list or in the lists of two entries.
ClustersOwnedOnce ==
    acfs.initialized =>
        /\ \A i \in LiveSlots(acfs) :
             LET list == acfs.entries[i].cluster_list
             IN  /\ \A k \in 1..Len(list) :
                      /\ list[k] >= acfs.header.sys_clusters
                      /\ list[k] < acfs.header.total_clusters
                 /\ \A k, l \in 1..Len(list) : k # l => list[k] # list[l]
        /\ \A i, j \in LiveSlots(acfs) :
             i # j => SeqRange(acfs.entries[i].cluster_list)
                          \cap SeqRange(acfs.entries[j].cluster_list) = {}

\* two live entries that both own clusters
ClustersOwnedOnceWitness ==
    /\ acfs.initialized
    /\ acfs.header.data_entries = 2
    /\ \A i \in LiveSlots(acfs) : Len(acfs.entries[i].cluster_list) > 0

\* C4: a successful write of an id that was not in the directory, followed
\* by a successful delete of that id, leaves free_clusters, the bitmap and
\* data_entries as they were before the write, and acfs_exists(id) false.
DeleteUndoesWrite ==
    [][(/\ last.op = "write" /\ last.ret = "OK" /\ ~last.pre.present
        /\ last'.op = "delete" /\ last'.id = last.id /\ last'.ret = "OK")
       => (/\ acfs'.header.free_clusters = last.pre.a.header.free_clusters
           /\ acfs'.bitmap = last.pre.a.bitmap
           /\ acfs'.header.data_entries = last.pre.a.header.data_entries
           /\ ~acfs_exists(acfs', last.id))]_vars

\* a successful delete made right after the successful write of a new id
DeleteUndoesWriteWitness ==
    /\ prev.op = "write" /\ prev.ret = "OK" /\ ~prev.present
    /\ last.op = "delete" /\ last.id = prev.id /\ last.ret = "OK"

\* the data_ids of the live entries, slot by slot
Directory(a) == [i \in LiveSlots(a) |-> a.entries[i].data_id]

\* C5: acfs_write(id, b, n) made twice in a row on a mounted instance leaves
\* what making it once leaves: the same directory with at most one entry
\* for id, the same bitmap, the same free_clusters and the same result of a
\* following read.
RewriteIdempotent ==
    [][(/\ acfs.initialized
        /\ last.op = "write" /\ last'.op = "write"
        /\ last'.id = last.id /\ last'.size = last.size
        /\ last'.data = last.data)
       => (/\ ~Faulted(last'.ret)
           /\ Directory(acfs') = Directory(acfs)
           /\ Cardinality({i \in LiveSlots(acfs') :
                             acfs'.entries[i].data_id = last.id}) <= 1
           /\ acfs'.bitmap = acfs.bitmap
           /\ acfs'.header.free_clusters = acfs.header.free_clusters
           /\ Observe(acfs', medium').ids[last.id]
                = Observe(acfs, medium).ids[last.id])]_vars

\* whether every read of an observation returned
ReadsReturned(obs) == \A id \in Ids : ~Faulted(obs.ids[id].read_ret)

\* C6: acfs_deinit followed by acfs_init with the same cluster_size on the
\* unmodified medium: the init succeeds and exists, get_size, read, free
\* space and data count give for every id what they gave before the deinit.
RemountRoundTrip ==
    [][(/\ last.op = "deinit" /\ last.ret = "OK"
        /\ ReadsReturned(last.obs[1])
        /\ last'.op = "init"
        /\ last'.config.cluster_size = last.obs[1].cluster_size)
       => (/\ last'.ret = "OK"
           /\ Observe(acfs', medium') = last.obs[1])]_vars

\* C7: in every mounted state no two live entries have the same data_id,
\* and a write to an id that is in the directory leaves data_entries as it
\* was.
UniqueIds ==
    /\ acfs.initialized =>
         \A i, j \in LiveSlots(acfs) :
            i # j => acfs.entries[i].data_id # acfs.entries[j].data_id
    /\ (last.op = "write" /\ last.pre.present /\ ~Faulted(last.ret)) =>
         acfs.header.data_entries = last.pre.a.header.data_entries

\* a write to an id that was in the directory, made while a second id is
\* in the directory too
UniqueIdsWitness ==
    /\ last.op = "write" /\ last.pre.present
    /\ acfs.initialized
    /\ acfs.header.data_entries = 2

\* whether a call made any medium call of this kind
Issued(call, kind) == \E k \in 1..Len(call.log) : call.log[k].kind = kind

\* C8: acfs_init on a medium that holds no valid filesystem: with
\* format_if_invalid false it returns INVALID_FILESYSTEM, leaves the
\* instance unmounted and writes nothing to the medium; with
\* format_if_invalid true it returns OK and the mounted instance has
\* data_entries 0, free_clusters = total_clusters - sys_clusters and used
\* size 0.
MountUnformatted ==
    (last.op = "init" /\ ~last.pre.a.initialized /\ ~last.pre.valid_fs) =>
        IF ~last.config.format_if_invalid
        THEN /\ last.ret = "INVALID_FILESYSTEM"
             /\ ~acfs.initialized
             /\ ~Issued(last, "write")
             /\ medium = FreshMedium
        ELSE /\ last.ret = "OK"
             /\ acfs.initialized
             /\ acfs.header.data_entries = 0
             /\ acfs.header.free_clusters
                  = acfs.header.total_clusters - acfs.header.sys_clusters
             /\ acfs_get_stats(acfs).used_size = 0

\* an unformatted medium was mounted by formatting it, after an attempt
\* without formatting
MountUnformattedWitness ==
    /\ prev.op = "init" /\ prev.ret = "INVALID_FILESYSTEM"
    /\ last.op = "init" /\ ~last.pre.valid_fs
    /\ last.config.format_if_invalid
    /\ acfs.initialized

\* C9: acfs_read of a live entry with buf_len >= data_size stores nothing
\* beyond the buf_len bytes of the caller's buffer.
ReadWithinBuffer ==
    (last.op = "read" /\ last.pre.present /\ last.size >= last.pre.data_size)
        => last.overrun = 0

\* C10: acfs_read of a live entry with buf_len < data_size returns
\* INVALID_PARAM, stores data_size into out_len, makes no medium call and
\* leaves the caller's buffer and the instance as they were.
ReadShortBuffer ==
    (last.op = "read" /\ last.pre.present /\ last.size < last.pre.data_size)
        => /\ last.ret = "INVALID_PARAM"
           /\ last.actual_size = last.pre.data_size
           /\ last.log = <<>>
           /\ last.out = FreshBuf(last.size)
           /\ acfs = last.pre.a

\* a read with a buffer one byte shorter than the data
ReadShortBufferWitness ==
    /\ last.op = "read" /\ last.pre.present
    /\ last.size = last.pre.data_size - 1
    /\ last.ret = "INVALID_PARAM"

\* whether a live slot of the directory holds this id
InDirectory(a, id) == \E i \in LiveSlots(a) : a.entries[i].data_id = id

\* C11: on a mounted instance acfs_read and acfs_delete of an id that is
\* not in the directory return DATA_NOT_FOUND, make no medium call and
\* leave the instance and the medium as they were; acfs_get_size returns
\* DATA_NOT_FOUND and acfs_exists false for such an id, and acfs_exists
\* returns true for every id that is in the directory.
MissIsNotFound ==
    /\ [](acfs.initialized =>
            \A id \in Ids :
               IF InDirectory(acfs, id) THEN acfs_exists(acfs, id)
               ELSE /\ ~acfs_exists(acfs, id)
                    /\ acfs_get_size(acfs, id).ret = "DATA_NOT_FOUND")
    /\ [][(/\ acfs.initialized
           /\ last'.op \in {"read", "delete"}
           /\ ~InDirectory(acfs, last'.id))
          => (/\ last'.ret = "DATA_NOT_FOUND"
              /\ last'.log = <<>>
              /\ acfs' = acfs
              /\ medium' = medium)]_vars

\* a delete of an id that is not in a directory that holds another id
MissIsNotFoundWitness ==
    /\ last.op = "delete" /\ last.ret = "DATA_NOT_FOUND"
    /\ acfs.initialized
    /\ ~InDirectory(acfs, last.id)
    /\ acfs.header.data_entries = 1

\* whether a write was given a null pointer or the size 0
NullOrEmptyWrite(call) ==
    ~call.inst \/ call.id = NullId \/ call.data = NullData \/ call.size = 0

\* a write that was rejected and left instance and medium alone
Rejected(call) ==
    /\ call.ret = "INVALID_PARAM"
    /\ call.log = <<>>
    /\ acfs = call.pre.a

\* a write of an id of 31 characters with valid arguments on a mounted
\* instance is not rejected as a bad argument, and when it succeeds the
\* directory holds all 31 characters
LongestIdStored ==
    (/\ last.op = "write" /\ ~NullOrEmptyWrite(last)
     /\ last.pre.a.initialized
     /\ Len(last.id) = ACFS_MAX_DATA_ID_LEN - 1)
        => /\ last.ret # "INVALID_PARAM"
           /\ last.ret = "OK" => InDirectory(acfs, last.id)

\* C12 as stated: acfs_write returns INVALID_PARAM and leaves instance and
\* medium unchanged whenever the instance, the id or the data pointer is
\* null, the size is 0 or the id has 32 or more characters; an id of 31
\* characters is accepted and stored untruncated.
BadArgumentsRejected ==
    /\ (last.op = "write"
          /\ (NullOrEmptyWrite(last) \/ Len(last.id) >= ACFS_MAX_DATA_ID_LEN))
         => Rejected(last)
    /\ LongestIdStored

\* C12, amended: an id of 32 or more characters is rejected with
\* INVALID_PARAM on a mounted instance; on an instance that is not mounted
\* the write returns NOT_INITIALIZED and changes nothing. The null pointers
\* and the size 0 are rejected with INVALID_PARAM in either state, and an
\* id of 31 characters is accepted and stored untruncated.
BadArgumentsRejectedWhenMounted ==
    /\ (last.op = "write" /\ NullOrEmptyWrite(last)) => Rejected(last)
    /\ (/\ last.op = "write" /\ ~NullOrEmptyWrite(last)
        /\ Len(last.id) >= ACFS_MAX_DATA_ID_LEN)
         => IF last.pre.a.initialized THEN Rejected(last)
            ELSE /\ last.ret = "NOT_INITIALIZED"
                 /\ last.log = <<>>
                 /\ acfs = last.pre.a
    /\ LongestIdStored

\* an id of 31 characters was written and is in the directory
BadArgumentsRejectedWitness ==
    /\ last.op = "write" /\ last.ret = "OK"
    /\ last.id = Id31
    /\ \E i \in LiveSlots(acfs) : Len(acfs.entries[i].data_id) = 31

\* C13: acfs_write with an empty id on a mounted instance returns
\* INVALID_PARAM and creates no directory entry.
EmptyIdRejected ==
    (/\ last.op = "write" /\ last.inst /\ last.id = <<>>
     /\ last.pre.a.initialized)
        => /\ last.ret = "INVALID_PARAM"
           /\ acfs.header.data_entries = last.pre.a.header.data_entries

MismatchKeepsEntry ==
    /\ [][(last'.op = "read" /\ last'.ret = "CRC_MISMATCH")
          => (/\ acfs' = acfs
              /\ acfs_exists(acfs', last'.id)
              /\ acfs_get_size(acfs', last'.id)
                    = acfs_get_size(acfs, last'.id))]_vars
    /\ [][(/\ prev.op = "read" /\ prev.ret = "CRC_MISMATCH"
           /\ last.op = "write" /\ last.ret = "OK" /\ last.id = prev.id
           /\ last'.op = "read" /\ last'.id = last.id
           /\ last'.size >= last.size)
          => (/\ last'.ret = "OK"
              /\ last'.actual_size = last.size
              /\ SubSeq(last'.out, 1, last.size) = Written(last))]_vars

\* the live entries of the directory, slot by slot
LiveEntries(a) == [i \in LiveSlots(a) |-> a.entries[i]]

\* the number of clusters a write needs on the instance it was made on
Needed(call) ==
    acfs_calculate_clusters_needed(call.pre.a.header.cluster_size, call.size)

\* a write of a new id to a mounted instance whose directory has a free slot
WriteOfNewId(call) ==
    /\ call.op = "write" /\ ~NullOrEmptyWrite(call)
    /\ call.pre.a.initialized /\ ~call.pre.present
    /\ ~IdTooLong(call.id)
    /\ call.pre.a.header.data_entries < MaxEntries(call.pre.a.header)

\* C16: a write of a new id that needs more clusters than are free returns
\* NO_SPACE, makes no medium call and leaves data_entries, free_clusters,
\* the bitmap and the live entries as they were.
NoSpaceLeavesState ==
    (WriteOfNewId(last) /\ Needed(last) > last.pre.a.header.free_clusters)
        => /\ last.ret = "NO_SPACE"
           /\ last.log = <<>>
           /\ acfs.header = last.pre.a.header
           /\ acfs.bitmap = last.pre.a.bitmap
           /\ LiveEntries(acfs) = LiveEntries(last.pre.a)

\* the directory capacity M of a geometry
Capacity(h) ==
    (h.sys_clusters * h.cluster_size - SizeofHeader) \div SizeofEntry

\* C17: when data_entries equals the capacity M, a write of an id that is
\* not in the directory returns CLUSTER_FULL, makes no medium call and
\* leaves the instance as it was; a write to an id that is in the
\* directory is not turned away as CLUSTER_FULL.
FullDirectoryRejects ==
    (/\ last.op = "write" /\ ~NullOrEmptyWrite(last) /\ ~IdTooLong(last.id)
     /\ last.pre.a.initialized
     /\ last.pre.a.header.data_entries = Capacity(last.pre.a.header))
        => IF last.pre.present
           THEN last.ret # "CLUSTER_FULL"
           ELSE /\ last.ret = "CLUSTER_FULL"
                /\ last.log = <<>>
                /\ acfs = last.pre.a

\* a second id was turned away from a directory of capacity 1
FullDirectoryRejectsWitness ==
    /\ last.op = "write" /\ last.ret = "CLUSTER_FULL"
    /\ acfs.header.data_entries = 1
    /\ Capacity(acfs.header) = 1

\* a first id was written again while the directory was full
FullDirectoryRewriteReached ==
    /\ last.op = "write" /\ last.ret = "OK" /\ last.pre.present
    /\ last.pre.a.header.data_entries = Capacity(last.pre.a.header)

\* the calls that have a return code, made with arguments that are valid
ValidCall(call) ==
    /\ call.inst
    /\ call.op \in {"write", "read", "delete", "check_integrity",
                    "defragment", "deinit"}
    /\ call.op = "write" => ~NullOrEmptyWrite(call) /\ ~IdTooLong(call.id)

\* C18: on an instance that is not mounted, write, read, delete,
\* check_integrity, defragment and deinit with valid arguments return
\* NOT_INITIALIZED, make no medium call and change nothing; get_size,
\* get_free_space and get_stats return NOT_INITIALIZED and exists is false.
UnmountedRefuses ==
    /\ (ValidCall(last) /\ ~last.pre.a.initialized)
          => /\ last.ret = "NOT_INITIALIZED"
             /\ last.log = <<>>
             /\ acfs = last.pre.a
    /\ ~acfs.initialized
          => /\ \A id \in ArgIds \ {NullId} :
                   /\ ~acfs_exists(acfs, id)
                   /\ acfs_get_size(acfs, id).ret = "NOT_INITIALIZED"
             /\ acfs_get_free_space(acfs).ret = "NOT_INITIALIZED"
             /\ acfs_get_stats(acfs).ret = "NOT_INITIALIZED"

\* a write after a successful deinit was refused
UnmountedRefusesWitness ==
    /\ prev.op = "deinit" /\ prev.ret = "OK"
    /\ last.op = "write" /\ last.ret = "NOT_INITIALIZED"
    /\ ~acfs.initialized

\* C19: acfs_init on a mounted instance returns ALREADY_INITIALIZED and
\* changes neither the instance nor the medium; an acfs_init that fails
\* leaves the instance unmounted and only one that returns OK mounts it;
\* acfs_deinit on a mounted instance returns OK and unmounts it; no other
\* call that returns, failing or not, takes the instance out of mounted.
LifecycleKept ==
    [][/\ (last'.op = "init" /\ acfs.initialized)
            => /\ last'.ret = "ALREADY_INITIALIZED"
               /\ last'.log = <<>>
               /\ acfs' = acfs /\ medium' = medium
       /\ (last'.op = "init" /\ ~acfs.initialized)
            => (acfs'.initialized <=> last'.ret = "OK")
       /\ (last'.op = "deinit" /\ acfs.initialized)
            => last'.ret = "OK" /\ ~acfs'.initialized
       /\ (acfs.initialized /\ ~acfs'.initialized /\ ~Faulted(last'.ret))
            => last'.op = "deinit" /\ last'.ret = "OK"
       /\ (~acfs.initialized /\ acfs'.initialized)
            => last'.op = "init" /\ last'.ret = "OK"]_vars

\* a mounted instance was initialized again
LifecycleKeptWitness ==
    /\ last.op = "init" /\ last.ret = "ALREADY_INITIALIZED"
    /\ last.pre.a.initialized /\ acfs.initialized
    /\ acfs.header.data_entries = 1

\* an acfs_init failed
FailedInitReached(ret) ==
    last.op = "init" /\ last.ret = ret /\ ~acfs.initialized

\* a call other than init and deinit failed on a mounted instance
FailedCallReached(op, ret) ==
    last.op = op /\ last.ret = ret /\ acfs.initialized

\* the four outputs of acfs_get_stats are those of the superblock in memory
StatsOfHeader(a) ==
    LET s == acfs_get_stats(a)
        h == a.header
    IN  /\ s.ret = "OK"
        /\ s.total_size = (h.total_clusters - h.sys_clusters) * h.cluster_size
        /\ s.free_size = h.free_clusters * h.cluster_size
        /\ s.used_size = s.total_size - s.free_size
        /\ s.data_count = h.data_entries

\* the used size lies between nothing and the whole data area
StatsInRange(a) ==
    LET s == acfs_get_stats(a)
    IN  /\ 0 <= s.used_size /\ s.used_size <= s.total_size
        /\ s.used_size + s.free_size = s.total_size

\* the call formatted the medium and returned with the instance mounted
JustFormatted ==
    /\ last.ret = "OK" /\ acfs.initialized
    /\ \/ last.op = "format"
       \/ last.op = "init" /\ ~last.pre.valid_fs

\* a write into an empty directory succeeded
FirstWrite ==
    /\ last.op = "write" /\ last.ret = "OK"
    /\ last.pre.a.initialized
    /\ last.pre.a.header.data_entries = 0

\* C20: in every mounted state acfs_get_stats returns total_size =
\* (N - R) * S, free_size = F * S, used_size = total_size - free_size and
\* data_count = data_entries, with 0 <= used_size <= total_size; used_size
\* and data_count are 0 right after a format, and used_size > 0 and
\* data_count = 1 after the first successful write.
StatsConsistent ==
    /\ acfs.initialized => StatsOfHeader(acfs) /\ StatsInRange(acfs)
    /\ JustFormatted => /\ acfs_get_stats(acfs).used_size = 0
                        /\ acfs_get_stats(acfs).data_count = 0
    /\ FirstWrite => /\ acfs_get_stats(acfs).used_size > 0
                     /\ acfs_get_stats(acfs).data_count = 1

\* C21: on a medium that needs erasing, no medium write inside the medium
\* is refused because its range still holds written bytes: the engine
\* erases a range before it writes it again.
ErasedBeforeRewrite ==
    storage.need_erase
        => \A i \in DOMAIN last.log :
              (/\ last.log[i].kind = "write"
               /\ last.log[i].addr + last.log[i].size <= storage.size)
                 => last.log[i].ok

\* the smallest number of clusters of this size that hold n bytes
CeilDiv(n, cluster_size) == (n + cluster_size - 1) \div cluster_size

\* C22: for every medium size and valid cluster size S a format yields
\* N = floor(size / S), R = max(2, ceil(sizeof(superblock) / S)) for the
\* hint 0 and R = hint otherwise, E = 0 and F = N - R, and fails with
\* INVALID_PARAM when R >= N.
FormatGeometryRight ==
    last.op = "geometry"
        => LET S == last.config.cluster_size
               hint == last.config.reserved_clusters
               N == last.size \div S
               R == IF hint = 0 THEN Max(2, CeilDiv(SizeofHeader, S))
                    ELSE hint
               h == last.obs[1]
           IN  IF R >= N THEN last.ret = "INVALID_PARAM"
               ELSE /\ last.ret = "OK"
                    /\ h.total_clusters = N /\ h.sys_clusters = R
                    /\ h.data_entries = 0 /\ h.free_clusters = N - R

\* a cluster size outside [64, 4096] or not a power of two
BadClusterSize(cluster_size) ==
    \/ cluster_size < ACFS_CLUSTER_SIZE_MIN
    \/ cluster_size > ACFS_CLUSTER_SIZE_MAX
    \/ cluster_size \notin PowersOfTwo

\* C23: a format request with such a cluster size, through acfs_init on an
\* unmounted instance or through acfs_format, returns INVALID_PARAM and
\* makes no medium write.
BadClusterSizeRejected ==
    (/\ BadClusterSize(last.config.cluster_size)
     /\ \/ last.op = "format"
        \/ last.op = "init" /\ ~last.pre.a.initialized)
        => /\ last.ret = "INVALID_PARAM"
           /\ \A i \in DOMAIN last.log : last.log[i].kind # "write"

\* C24: in every mounted state the reserved region has at least two
\* clusters and leaves at least one data cluster: R >= 2 and R < N.
GeometryInRange ==
    acfs.initialized
        => /\ acfs.header.sys_clusters >= 2
           /\ acfs.header.sys_clusters < acfs.header.total_clusters

\* C25: in every mounted state every live entry has cluster_count =
\* ceil(data_size / S), at least 1, and a cluster list of exactly
\* cluster_count indices.
ClusterCountRight ==
    acfs.initialized
        => \A i \in LiveSlots(acfs) :
              LET e == acfs.entries[i]
              IN  /\ e.cluster_count
                        = CeilDiv(e.data_size, acfs.header.cluster_size)
                  /\ e.cluster_count >= 1
                  /\ e.ptr = "heap"
                  /\ Len(e.cluster_list) = e.cluster_count

\* a write to an id in the directory whose new cluster list could not be
\* allocated
FailedRewrite(call) ==
    /\ call.op = "write" /\ call.ret = "NO_SPACE"
    /\ call.pre.a.initialized /\ call.pre.present

\* C26: after such a write the entry is still in the directory, with
\* cluster_count 0 and no cluster list; its old clusters are free in the
\* bitmap and counted in F.
FailedRewriteEmptiesEntry ==
    FailedRewrite(last)
        => LET old == last.pre.a.entries[acfs_find_entry(last.pre.a, last.id)]
               idx == acfs_find_entry(acfs, last.id)
           IN  /\ idx # 0
               /\ acfs.entries[idx].ptr = "null"
               /\ acfs.entries[idx].cluster_list = <<>>
               /\ acfs.entries[idx].cluster_count = 0
               /\ \A k \in 1..old.cluster_count :
                     old.cluster_list[k] \notin acfs.bitmap
               /\ acfs.header.free_clusters
                     = last.pre.a.header.free_clusters + old.cluster_count

\* a medium call inside the reserved region of this geometry
InReserved(h, call) ==
    /\ call.addr >= storage.start_addr
    /\ call.addr + call.size
          <= storage.start_addr + h.sys_clusters * h.cluster_size

\* a medium call that covers exactly one data cluster of this geometry
IsDataCluster(h, call) ==
    /\ call.size = h.cluster_size
    /\ \E c \in h.sys_clusters..(h.total_clusters - 1) :
          call.addr = storage.start_addr + c * h.cluster_size

\* C27: every medium write of a call that is not the write of a data
\* cluster (superblock, entry records, cluster-list slots, zeroing of the
\* format) lies inside the reserved region [start_addr, start_addr + R*S).
MetadataInReserved ==
    (acfs.initialized /\ last.op \in {"init", "format", "write", "delete"})
        => \A i \in DOMAIN last.log :
              last.log[i].kind = "write"
                 => \/ InReserved(acfs.header, last.log[i])
                    \/ IsDataCluster(acfs.header, last.log[i])

\* no entry stands above the first slot and no cluster list is longer than
\* the room that is left behind one entry record
OneShortList(a) ==
    /\ a.header.data_entries <= 1
    /\ \A i \in LiveSlots(a) :
          SizeofHeader + SizeofEntry + 2 * a.entries[i].cluster_count
             <= a.header.sys_clusters * a.header.cluster_size

\* a medium write of exactly this range
IsWrite(call, addr, size) ==
    call.kind = "write" /\ call.addr = addr /\ call.size = size

\* the medium calls log[from ..] are the superblock, then the entry records
\* of the instance, then nothing but cluster-list slots behind them
SavesDirectory(a, log, from) ==
    LET records == a.header.data_entries * SizeofEntry
    IN  /\ Len(log) >= from + 1
        /\ IsWrite(log[from], storage.start_addr, SizeofHeader)
        /\ IsWrite(log[from + 1], storage.start_addr + SizeofHeader, records)
        /\ \A j \in (from + 2)..Len(log) :
              /\ log[j].kind = "write"
              /\ log[j].addr >= storage.start_addr + SizeofHeader + records

\* C28: a successful acfs_write writes the data clusters in cluster_list
\* order, then the superblock, then the entry records and the cluster-list
\* slots; acfs_delete frees the clusters in memory, then writes the
\* superblock, then the directory; a medium call that fails is the last one
\* of the operation, which returns IO_ERROR.
WriteOrder ==
    /\ (last.op = "write" /\ last.ret = "OK")
          => LET e == acfs.entries[acfs_find_entry(acfs, last.id)]
                 S == acfs.header.cluster_size
             IN  /\ Len(last.log) >= e.cluster_count
                 /\ \A k \in 1..e.cluster_count :
                       IsWrite(last.log[k],
                               storage.start_addr + e.cluster_list[k] * S, S)
                 /\ SavesDirectory(acfs, last.log, e.cluster_count + 1)
    /\ (last.op = "delete" /\ last.ret = "OK")
          => SavesDirectory(acfs, last.log, 1)
    /\ (last.op = "delete" /\ last.log # <<>>)
          => LET old == last.pre.a.entries[acfs_find_entry(last.pre.a, last.id)]
             IN  /\ acfs.header.free_clusters
                       = last.pre.a.header.free_clusters + old.cluster_count
                 /\ \A k \in 1..old.cluster_count :
                       old.cluster_list[k] \notin acfs.bitmap
                 /\ IsWrite(last.log[1], storage.start_addr, SizeofHeader)
    /\ (last.op \in {"write", "delete"} /\ ~Faulted(last.ret))
          => /\ \A i \in DOMAIN last.log :
                   ~last.log[i].ok => i = Len(last.log)
             /\ last.ret = "IO_ERROR"
                   <=> (last.log # <<>> /\ ~last.log[Len(last.log)].ok)

\* a write of two clusters went through after a write the medium stopped
WriteOrderWitness ==
    /\ last.op = "write" /\ last.ret = "OK" /\ last.size = 100
    /\ Len(last.log) = 5
    /\ prev.op = "write" /\ prev.ret = "IO_ERROR"

\* a delete failed at its second medium call
DeleteStoppedReached ==
    /\ last.op = "delete" /\ last.ret = "IO_ERROR" /\ Len(last.log) = 2

Allocates(call) ==
    /\ call.op = "write" /\ ~NullOrEmptyWrite(call) /\ ~IdTooLong(call.id)
    /\ call.pre.a.initialized
    /\ LET p == call.pre.a
           idx == acfs_find_entry(p, call.id)
       IN  IF idx = 0
           THEN /\ p.header.data_entries < MaxEntries(p.header)
                /\ p.header.data_entries < Len(p.entries)
           ELSE /\ p.entries[idx].cluster_count # Needed(call)
                /\ p.entries[idx].ptr = "heap"

\* the instance the allocator is called on: the clusters of an entry that
\* is written again are released
BeforeAllocation(call) ==
    LET p == call.pre.a
        idx == acfs_find_entry(p, call.id)
    IN  IF idx = 0 THEN p
        ELSE acfs_free_clusters(p, p.entries[idx].cluster_list,
                                p.entries[idx].cluster_count)

\* the clusters of [R, N) whose bit is clear
ClearClusters(a) ==
    {c \in a.header.sys_clusters..(a.header.total_clusters - 1) :
        c \notin a.bitmap}

\* list holds the k lowest members of clear, in strictly ascending order
LowestOf(clear, list, k) ==
    /\ Len(list) = k
    /\ \A i \in 1..(k - 1) : list[i] < list[i + 1]
    /\ SeqRange(list) \subseteq clear
    /\ \A c \in clear \ SeqRange(list) : c > list[k]

\* C30: an allocation of k clusters either succeeds, returning the k
\* lowest-indexed clusters of [R, N) whose bit was clear in ascending order,
\* setting exactly those bits and decreasing F by k, or fails with NO_SPACE
\* and leaves every bit and F as they were.
AllocatesLowest ==
    Allocates(last)
        => LET b == BeforeAllocation(last)
               k == Needed(last)
               idx == acfs_find_entry(acfs, last.id)
           IN  \/ /\ last.ret \in {"OK", "IO_ERROR"}
                  /\ idx # 0
                  /\ LowestOf(ClearClusters(b), acfs.entries[idx].cluster_list, k)
                  /\ acfs.bitmap
                        = b.bitmap \cup SeqRange(acfs.entries[idx].cluster_list)
                  /\ acfs.header.free_clusters = b.header.free_clusters - k
               \/ /\ last.ret = "NO_SPACE"
                  /\ acfs.bitmap = b.bitmap
                  /\ acfs.header.free_clusters = b.header.free_clusters

\* the clusters that occur in the cluster_list of a live entry
ListedClusters(a) ==
    UNION {IF a.entries[i].ptr = "null" THEN {}
           ELSE SeqRange(a.entries[i].cluster_list) : i \in LiveSlots(a)}

\* C31: in every mounted state bitmap bit i is set iff i < sys_clusters or
\* i occurs in the cluster_list of a live entry, and free_clusters is the
\* number of clear bits at the indices [sys_clusters, total_clusters).
BitmapMatchesDirectory ==
    (acfs.initialized /\ ~Faulted(last.ret)) =>
        /\ \A i \in 0..(acfs.header.total_clusters - 1) :
             (i \in acfs.bitmap)
                 <=> (i < acfs.header.sys_clusters \/ i \in ListedClusters(acfs))
        /\ acfs.header.free_clusters
               = Cardinality((acfs.header.sys_clusters
                                ..(acfs.header.total_clusters - 1))
                             \ acfs.bitmap)

\* the superblock as the medium holds it
StoredHeader(m) ==
    DecodeHeader(SubSeq(m, storage.start_addr + 1,
                        storage.start_addr + SizeofHeader))

\* whether the stored superblock is sound and carries the counters of a
SuperblockCurrent(a, m) ==
    LET h == StoredHeader(m)
    IN  /\ h.magic = ACFS_MAGIC_NUMBER
        /\ h.crc32 = HeaderCrc(h)
        /\ h.data_entries = a.header.data_entries
        /\ h.free_clusters = a.header.free_clusters

\* C32: after every acfs_write or acfs_delete that returns OK and after every
\* successful format the superblock on the medium has the magic, a stored CRC
\* equal to the CRC over its preceding bytes, and data_entries and
\* free_clusters equal to those in memory.
SuperblockPersisted ==
    (last.op \in {"write", "delete", "format"} /\ last.ret = "OK")
        => SuperblockCurrent(acfs, medium)

\* a successful delete that leaves an entry in the directory: the stored
\* counters are neither those of a fresh format nor those before the call
SuperblockPersistedWitness ==
    /\ last.op = "delete" /\ last.ret = "OK"
    /\ acfs.header.data_entries > 0
    /\ StoredHeader(medium).data_entries = acfs.header.data_entries
    /\ StoredHeader(medium).free_clusters < acfs.header.total_clusters
                                             - acfs.header.sys_clusters

\* acfs_init of a new instance on the medium m with cluster size S, without
\* leave to format
Remounted(m, S) ==
    acfs_init(ZeroAcfs, Dev(m, NoFail),
              [cluster_size |-> S, reserved_clusters |-> 0,
               format_if_invalid |-> FALSE])

\* what a mount takes from the medium: the counters and the entries
Persisted(a) ==
    [data_entries  |-> a.header.data_entries,
     free_clusters |-> a.header.free_clusters,
     entries |-> [i \in LiveSlots(a) |->
                    [data_id       |-> a.entries[i].data_id,
                     data_size     |-> a.entries[i].data_size,
                     cluster_count |-> a.entries[i].cluster_count,
                     cluster_list  |-> a.entries[i].cluster_list,
                     crc32         |-> a.entries[i].crc32]]]

\* an acfs_write on a mounted instance that the medium stopped after at least
\* one data-cluster write and before the superblock was written
StoppedInData(call) ==
    /\ call.op = "write" /\ call.ret = "IO_ERROR"
    /\ call.pre.a.initialized
    /\ Len(call.log) >= 2
    /\ \A i \in DOMAIN call.log :
          call.log[i].ok => /\ call.log[i].kind = "write"
                            /\ IsDataCluster(call.pre.a.header, call.log[i])

\* C33: when an acfs_write stops after some or all of its data-cluster writes
\* and before the superblock write, on a medium that could be mounted when
\* the write started, a mount of the medium succeeds and gives the counters
\* and the directory entries that a mount gave before the write.
PowerLossKeepsDirectory ==
    [][LET S == last'.pre.a.header.cluster_size
           after == Remounted(medium', S)
           before == Remounted(medium, S)
       IN  (StoppedInData(last') /\ before.ret = "OK")
               => /\ after.ret = "OK"
                  /\ Persisted(after.a) = Persisted(before.a)]_vars

\* whether the CRC of the first data_size bytes held by the clusters of the
\* live entry i equals the CRC stored in the entry
EntryIntact(a, m, i) ==
    LET e == a.entries[i]
        r == ReadClustersFrom(a, Dev(m, NoFail), e.cluster_list,
                              e.cluster_count, 1, <<>>)
    IN  /\ e.ptr = "heap"
        /\ r.ok
        /\ Len(r.got) >= e.data_size
        /\ acfs_crc32(r.got, e.data_size) = e.crc32

\* C34: acfs_check_integrity on a mounted instance returns OK iff the CRC of
\* the first data_size bytes of every live entry equals its stored crc32 and
\* DATA_CORRUPTED otherwise, stores no more than data_size bytes into the
\* temporary buffer of an entry, and leaves the instance as it was.
IntegrityChecked ==
    (last.op = "check_integrity" /\ last.pre.a.initialized) =>
        /\ last.overrun = 0
        /\ last.ret = IF \A i \in LiveSlots(acfs) :
                            EntryIntact(acfs, medium, i)
                      THEN "OK" ELSE "DATA_CORRUPTED"
        /\ acfs = last.pre.a
        /\ \A i \in DOMAIN last.log : last.log[i].kind = "read"

\* C35: acfs_format on a mounted instance never leaves the instance mounted
\* with data_entries reset to 0 while clusters of the entries it held are
\* still marked used in the bitmap.
FormatKeepsDirectory ==
    (last.op = "format" /\ last.pre.a.initialized /\ acfs.initialized)
        => ~ /\ last.pre.a.header.data_entries > 0
             /\ acfs.header.data_entries = 0
             /\ ListedClusters(last.pre.a) \cap acfs.bitmap # {}

\* whether the first medium call of the call was a read that failed
FirstReadFailed(call) ==
    /\ call.log # <<>>
    /\ call.log[1].kind = "read"
    /\ ~call.log[1].ok

\* whether the call asked the medium to write
AsksWrite(call) == \E i \in DOMAIN call.log : call.log[i].kind = "write"

\* C36: acfs_init formats only when the superblock was read and is not a
\* valid one of the configured cluster size, and format_if_invalid is set; a
\* failed read of the superblock is returned as IO_ERROR and issues no
\* format; a valid superblock of the configured cluster size is mounted
\* without a medium write.
InitFormatsOnlyInvalid ==
    (last.op = "init") =>
        /\ FirstReadFailed(last)
              => (last.ret = "IO_ERROR" /\ ~AsksWrite(last))
        /\ AsksWrite(last)
              => (last.config.format_if_invalid /\ ~last.pre.valid_fs)
        /\ (last.pre.valid_fs /\ ~FirstReadFailed(last)) => ~AsksWrite(last)

\* the calls that only ask
Queries == {"read", "check_integrity", "defragment"}

\* C37: acfs_read, acfs_exists, acfs_get_size, acfs_get_free_space,
\* acfs_get_stats, acfs_check_integrity and acfs_defragment leave the
\* superblock, the entries and the bitmap in memory unchanged and issue no
\* medium write, whatever they return; acfs_defragment on a mounted instance
\* returns OK.
QueriesChangeNothing ==
    /\ (last.op \in Queries)
          => /\ acfs.header = last.pre.a.header
             /\ acfs.entries = last.pre.a.entries
             /\ acfs.bitmap = last.pre.a.bitmap
             /\ ~AsksWrite(last)
    /\ (last.op = "defragment" /\ last.pre.a.initialized) => last.ret = "OK"

\* C38: after an acfs_write to an id of the directory returned NO_SPACE, an
\* acfs_read of that id into a buffer that holds it returns OK with the
\* length the entry has, and an acfs_delete of that id returns OK and leaves
\* free_clusters at most total_clusters - sys_clusters.
FailedRewriteKeepsBlob ==
    (/\ prev.op = "write" /\ prev.ret = "NO_SPACE" /\ prev.present
     /\ last.id = prev.id)
        => /\ (last.op = "read" /\ last.size >= last.pre.data_size)
                 => (last.ret = "OK" /\ last.actual_size = last.pre.data_size)
           /\ (last.op = "delete")
                 => /\ last.ret = "OK"
                    /\ acfs.header.free_clusters
                          <= acfs.header.total_clusters
                                - acfs.header.sys_clusters

\* values of the bytes that follow the n bytes of the caller's data in memory
Pads == {0, 238}

\* C39: acfs_write(id, b, n) reads only b[0..n): the medium and the instance
\* after the write are those of the write of any buffer that agrees with b
\* on [0, n), whatever follows the n bytes in memory.
WriteReadsOnlyData ==
    [][(last'.op = "write" /\ last'.data # NullData /\ last'.id # NullId)
       => \A p \in Pads :
             LET r == acfs_write(acfs, Dev(medium, NoFail), last'.id,
                                 [fill |-> last'.data.fill, pad |-> p],
                                 last'.size)
             IN  /\ r.ret = last'.ret
                 /\ r.d.mem = medium'
                 /\ r.a = acfs']_vars

\* C40: the cluster count acfs_write computes for n > 0 bytes is
\* ceil(n / cluster_size), so that an entry it stores with OK never has
\* fewer clusters than its data needs.
ClusterCountNotTruncated ==
    (last.op = "needed" /\ last.size > 0)
        => last.obs[1] = CeilDiv(last.size, last.config.cluster_size)

=============================================================================
